---- MODULE Spec2Model ----
(***************************************************************************)
(* A model of the vett CLI: the local state store (config.ts), the add     *)
(* command (commands/add.ts), and the installer that links a canonical     *)
(* skill directory into agent directories (installer.ts).                  *)
(***************************************************************************)
EXTENDS Naturals, Integers, Sequences, FiniteSets, TLC

VARIABLES
  \* ---- local state store: apps/cli/src/config.ts ----
  lockFile,      \* index.json.lock: [present, owner, age]
  indexFile,     \* index.json: [status: "absent", "partial", "complete"; doc]
  tmpFile,       \* per process: index.json.tmp-<pid>-<now>: "none", "partial", "complete"
  ppc,           \* per process: position inside the running store operation
  pop,           \* per process: the store operation being run
  pending,       \* per process: the in-memory index document (handed to saveIndex)
  afterSave,     \* per process: what follows the running saveIndex
  elapsed,       \* per process: ticks since withFileLock read startedAt
  lockTries,     \* per process: iterations of withFileLock's loop in this call
  foreignSave,   \* per process: another process renamed index.json since this one loaded it
  crashes,       \* number of processes killed so far
  \* ---- installer: agent directories on disk ----
  entries,       \* what is at each agent skill path: [kind, target, files]
  canon,         \* which canonical skill directories exist
  symlinkOk,     \* whether symlink() works on this platform and filesystem:
                 \* "yes", "no", or "unknown" until a command first needs a link
  calls,         \* per agent: the installToAgent call of the running installToAgents
  batch,         \* the running or last installToAgents: [state, agents, skill, global]
  batches,       \* number of installToAgents calls so far
  envSteps,      \* number of changes made by the user to the agent directories
  scan,          \* the statuses found by the last scan of sync, or NoScan
  fix,           \* the repair loop of sync --fix: [pc, issues, cur, fixed, failed,
                 \* refused, relinked]
  \* ---- the add command and the canonical directory of its skill ----
  add,           \* the running add: [pc, in, i, verified, handed, checked, written,
                 \* outcome]
  storeFs,       \* what is at each path below the skill's canonical directory
  escaped,       \* a file has been written outside the canonical directory
  snap,          \* the disk as it was when the running add started
  adds,          \* number of add commands started
  \* ---- the migration of the legacy list of installed skills: config.ts ----
  configFile,    \* config.json: [exists, hasList, list, current]
  mig,           \* the running loadConfig or loadIndex: [pc, fn, legacy, result, start]
  loads,         \* number of loads started
  \* ---- the within-base check, on paths as strings ----
  within,        \* the last call of the check: [fn, cand, verdict]
  \* ---- the functions checked on their own ----
  call,          \* the call made of one of them: [fn, in, out]
  \* ---- the registry requests of add and update: api.ts ----
  cmd,           \* the running command: [pc, command, jobId, elapsed, lastPoll, wait,
                 \* message, thrown, minVersion, upgradeAt, outcome]
  \* ---- sync --fix --add-new: the sync command ----
  syncNew,       \* the running sync: [pc, record, detected, todo, cur, called,
                 \* succeeded, fixed, failed, agents, saved]
  \* ---- remove: commands/remove.ts ----
  removal        \* the index records and the running remove: [index, pc, record,
                 \* pending, failed, canonFailed]

storeVars == <<lockFile, indexFile, tmpFile, ppc, pop, pending,
               afterSave, elapsed, lockTries, foreignSave, crashes>>

instVars == <<entries, canon, symlinkOk, calls, batch, batches, envSteps, scan, fix>>

addVars == <<add, storeFs, escaped, snap, adds>>

migVars == <<configFile, mig, loads>>

\* The variables of the parts of the model added after these three.
restVars == <<migVars, within, call, cmd, syncNew, removal>>

vars == <<storeVars, instVars, addVars, restVars>>

-----------------------------------------------------------------------------
\* Bounds of the model.
MaxCrashes == 1
\* One tick of the model clock, in milliseconds.
TickMs == 2500

\* withFileLock's constants.
timeoutMs == 2500
retryMs == 50
staleMs == 10000

Procs == {"p1", "p2"}
SkillNames == {"s1"}
NewAgent == "amp"

-----------------------------------------------------------------------------
\* Documents and files.

\* An InstalledSkill record of index.json, reduced to its key and its agent set.
InstalledSkill(n, ags) == [name |-> n, agents |-> ags]

DEFAULT_INDEX == {}

NoFile == [status |-> "absent", doc |-> {}]
NoLock == [present |-> FALSE, owner |-> "none", age |-> 0]

\* readJsonFile: undefined when the file is absent or does not parse.
readJsonFile(f) ==
  IF f.status = "complete" THEN [ok |-> TRUE, doc |-> f.doc]
  ELSE [ok |-> FALSE, doc |-> {}]

\* The in-memory change each index mutation makes between loadIndex and saveIndex;
\* addInstalledSkill puts the record it is given, with the agents of the record.
ApplyOp(op, doc) ==
  CASE op.kind = "add" ->
         {r \in doc : r.name # op.name} \cup {InstalledSkill(op.name, op.agents)}
    [] op.kind = "remove" -> {r \in doc : r.name # op.name}
    [] op.kind = "syncAddNew" ->
         {InstalledSkill(r.name, r.agents \cup {NewAgent}) : r \in doc}
    [] OTHER -> doc

StoreOps ==
  {[kind |-> "add", name |-> n, agents |-> {}] : n \in SkillNames}
    \cup {[kind |-> "remove", name |-> n, agents |-> {}] : n \in SkillNames}
    \cup {[kind |-> "syncAddNew", name |-> "-", agents |-> {}],
          [kind |-> "get", name |-> "-", agents |-> {}]}

NoOp == [kind |-> "none", name |-> "-", agents |-> {}]

\* Ticks after which the clock comparisons of withFileLock can no longer change.
TimeoutTicks == (timeoutMs \div TickMs) + 1
StaleTicks == (staleMs \div TickMs) + 1
Saturate(n, cap) == IF n < cap THEN n + 1 ELSE cap

IsStale(lock) == lock.age * TickMs > staleMs
IsTimedOut(p) == elapsed[p] * TickMs > timeoutMs

\* The process is executing the function guarded by withFileLock (writeJsonAtomic).
InGuardedFn(p) == ppc[p] \in {"write", "writeEnd", "rename"}

-----------------------------------------------------------------------------
\* Store operations, one action per system call.

\* The process's locals are gone once its command has ended.
ForgetLocals(p) ==
  /\ pop' = [pop EXCEPT ![p] = NoOp]
  /\ pending' = [pending EXCEPT ![p] = {}]
  /\ afterSave' = [afterSave EXCEPT ![p] = "return"]
  /\ elapsed' = [elapsed EXCEPT ![p] = 0]
  /\ lockTries' = [lockTries EXCEPT ![p] = 0]
  /\ foreignSave' = [foreignSave EXCEPT ![p] = FALSE]

\* A CLI process starts addInstalledSkill, removeInstalledSkill, the save of
\* sync --add-new, or a read-only lookup (getInstalledSkill).
StartOp(p) ==
  /\ ppc[p] = "idle"
  /\ \E op \in StoreOps : pop' = [pop EXCEPT ![p] = op]
  /\ ppc' = [ppc EXCEPT ![p] = "load"]
  /\ UNCHANGED <<lockFile, indexFile, tmpFile, pending, afterSave,
                 elapsed, lockTries, foreignSave, crashes>>
  /\ UNCHANGED <<instVars, addVars>>
  /\ UNCHANGED restVars

\* Entering withFileLock: startedAt = Date.now().
EnterLock(p, doc, next) ==
  /\ pending' = [pending EXCEPT ![p] = doc]
  /\ afterSave' = [afterSave EXCEPT ![p] = next]
  /\ elapsed' = [elapsed EXCEPT ![p] = 0]
  /\ lockTries' = [lockTries EXCEPT ![p] = 0]

\* loadIndex: read index.json; a missing or unparsable file becomes DEFAULT_INDEX,
\* which is saved at once; then the caller patches the document and saves it.
loadIndex(p) ==
  /\ ppc[p] = "load"
  /\ LET raw == readJsonFile(indexFile) IN
       /\ foreignSave' = [foreignSave EXCEPT ![p] = FALSE]
       /\ IF raw.ok
            THEN IF pop[p].kind = "get"
                   THEN /\ ppc' = [ppc EXCEPT ![p] = "done"]
                        /\ UNCHANGED <<pending, afterSave, elapsed, lockTries>>
                   ELSE /\ ppc' = [ppc EXCEPT ![p] = "open"]
                        /\ EnterLock(p, ApplyOp(pop[p], raw.doc), "return")
            ELSE /\ ppc' = [ppc EXCEPT ![p] = "open"]
                 /\ EnterLock(p, DEFAULT_INDEX,
                              IF pop[p].kind = "get" THEN "return" ELSE "mutate")
  /\ UNCHANGED <<lockFile, indexFile, tmpFile, pop, crashes>>
  /\ UNCHANGED <<instVars, addVars>>
  /\ UNCHANGED restVars

\* withFileLock: openSync(lockPath, 'wx').
withFileLock_open(p) ==
  /\ ppc[p] = "open"
  /\ lockTries' = [lockTries EXCEPT ![p] = @ + 1]
  /\ IF lockFile.present
       THEN /\ ppc' = [ppc EXCEPT ![p] = "stat"]
            /\ UNCHANGED lockFile
       ELSE /\ lockFile' = [present |-> TRUE, owner |-> p, age |-> 0]
            /\ ppc' = [ppc EXCEPT ![p] = "write"]
  /\ UNCHANGED <<indexFile, tmpFile, pop, pending, afterSave,
                 elapsed, foreignSave, crashes>>
  /\ UNCHANGED <<instVars, addVars>>
  /\ UNCHANGED restVars

\* A withFileLock that never judges a lock stale.
Mut_withFileLock_stat(p) ==
  /\ ppc[p] = "stat"
  /\ ppc' = [ppc EXCEPT ![p] = "check"]
  /\ UNCHANGED <<lockFile, indexFile, tmpFile, pop, pending, afterSave,
                 elapsed, lockTries, foreignSave, crashes>>
  /\ UNCHANGED <<instVars, addVars>>
  /\ UNCHANGED restVars

\* withFileLock: statSync(lockPath) and the age test.
withFileLock_stat(p) ==
  /\ ppc[p] = "stat"
  /\ ppc' = [ppc EXCEPT ![p] =
       IF lockFile.present /\ IsStale(lockFile) THEN "unlinkStale" ELSE "check"]
  /\ UNCHANGED <<lockFile, indexFile, tmpFile, pop, pending, afterSave,
                 elapsed, lockTries, foreignSave, crashes>>
  /\ UNCHANGED <<instVars, addVars>>
  /\ UNCHANGED restVars

\* withFileLock: unlinkSync(lockPath) of the lock judged stale, then continue.
withFileLock_unlinkStale(p) ==
  /\ ppc[p] = "unlinkStale"
  /\ IF lockFile.present
       THEN /\ lockFile' = NoLock
            /\ ppc' = [ppc EXCEPT ![p] = "open"]
       ELSE /\ UNCHANGED lockFile
            /\ ppc' = [ppc EXCEPT ![p] = "check"]
  /\ UNCHANGED <<indexFile, tmpFile, pop, pending, afterSave,
                 elapsed, lockTries, foreignSave, crashes>>
  /\ UNCHANGED <<instVars, addVars>>
  /\ UNCHANGED restVars

\* withFileLock without its timeout test: it sleeps and retries for ever.
Mut_withFileLock_check(p) ==
  /\ ppc[p] = "check"
  /\ ppc' = [ppc EXCEPT ![p] = "sleep"]
  /\ UNCHANGED <<lockFile, indexFile, tmpFile, pop, pending, afterSave,
                 elapsed, lockTries, foreignSave, crashes>>
  /\ UNCHANGED <<instVars, addVars>>
  /\ UNCHANGED restVars

\* withFileLock: the timeout test, then sleepMs(retryMs).
withFileLock_check(p) ==
  /\ ppc[p] = "check"
  /\ IF IsTimedOut(p)
       THEN ppc' = [ppc EXCEPT ![p] = "timedOut"]
       ELSE ppc' = [ppc EXCEPT ![p] = "sleep"]
  /\ UNCHANGED <<lockFile, indexFile, tmpFile, pop, pending, afterSave,
                 elapsed, lockTries, foreignSave, crashes>>
  /\ UNCHANGED <<instVars, addVars>>
  /\ UNCHANGED restVars

\* writeJsonAtomic writing the target in place, with no temp file.
Mut_writeJsonAtomic_write(p) ==
  /\ ppc[p] = "write"
  /\ indexFile' = [status |-> "partial", doc |-> pending[p]]
  /\ tmpFile' = [tmpFile EXCEPT ![p] = "partial"]
  /\ ppc' = [ppc EXCEPT ![p] = "writeEnd"]
  /\ UNCHANGED <<lockFile, pop, pending, afterSave,
                 elapsed, lockTries, foreignSave, crashes>>
  /\ UNCHANGED <<instVars, addVars>>
  /\ UNCHANGED restVars

\* writeJsonAtomic: writeFileSync(tmpPath, ...) starts; the temp file is partial.
writeJsonAtomic_write(p) ==
  /\ ppc[p] = "write"
  /\ tmpFile' = [tmpFile EXCEPT ![p] = "partial"]
  /\ ppc' = [ppc EXCEPT ![p] = "writeEnd"]
  /\ UNCHANGED <<lockFile, indexFile, pop, pending, afterSave,
                 elapsed, lockTries, foreignSave, crashes>>
  /\ UNCHANGED <<instVars, addVars>>
  /\ UNCHANGED restVars

\* writeJsonAtomic: writeFileSync(tmpPath, ...) returns; the temp file is complete.
writeJsonAtomic_writeEnd(p) ==
  /\ ppc[p] = "writeEnd"
  /\ tmpFile' = [tmpFile EXCEPT ![p] = "complete"]
  /\ ppc' = [ppc EXCEPT ![p] = "rename"]
  /\ UNCHANGED <<lockFile, indexFile, pop, pending, afterSave,
                 elapsed, lockTries, foreignSave, crashes>>
  /\ UNCHANGED <<instVars, addVars>>
  /\ UNCHANGED restVars

\* writeJsonAtomic: renameSync(tmpPath, path).
writeJsonAtomic_rename(p) ==
  /\ ppc[p] = "rename"
  /\ indexFile' = [status |-> tmpFile[p], doc |-> pending[p]]
  /\ tmpFile' = [tmpFile EXCEPT ![p] = "none"]
  /\ foreignSave' = [q \in Procs |->
       IF q = p \/ ppc[q] \in {"idle", "load", "done", "timedOut"} THEN foreignSave[q] ELSE TRUE]
  /\ ppc' = [ppc EXCEPT ![p] = "unlock"]
  /\ UNCHANGED <<lockFile, pop, pending, afterSave,
                 elapsed, lockTries, crashes>>
  /\ UNCHANGED <<instVars, addVars>>
  /\ UNCHANGED restVars

\* withFileLock: the finally block, unlinkSync(lockPath), whoever created the file.
\* After the save made by loadIndex the caller patches the document and saves again.
withFileLock_unlock(p) ==
  /\ ppc[p] = "unlock"
  /\ lockFile' = NoLock
  /\ IF afterSave[p] = "mutate"
       THEN /\ ppc' = [ppc EXCEPT ![p] = "open"]
            /\ EnterLock(p, ApplyOp(pop[p], pending[p]), "return")
       ELSE /\ ppc' = [ppc EXCEPT ![p] = "done"]
            /\ UNCHANGED <<pending, afterSave, elapsed, lockTries>>
  /\ UNCHANGED <<indexFile, tmpFile, pop,
                 foreignSave, crashes>>
  /\ UNCHANGED <<instVars, addVars>>
  /\ UNCHANGED restVars

\* The command returns (or fails with the lock timeout) and the process exits.
ExitOp(p) ==
  /\ ppc[p] \in {"done", "timedOut"}
  /\ ppc' = [ppc EXCEPT ![p] = "idle"]
  /\ ForgetLocals(p)
  /\ UNCHANGED <<lockFile, indexFile, tmpFile, crashes>>
  /\ UNCHANGED <<instVars, addVars>>
  /\ UNCHANGED restVars

\* The process is killed; its lock file stays on disk. So does its temp file,
\* under a name (pid and time) that no later process uses: tmpFile[p] is from
\* here on the temp file of the CLI invocation that takes its place.
Crash(p) ==
  /\ ppc[p] \notin {"idle", "done", "timedOut"}
  /\ crashes < MaxCrashes
  /\ crashes' = crashes + 1
  /\ ppc' = [ppc EXCEPT ![p] = "idle"]
  /\ lockFile' = IF lockFile.present /\ lockFile.owner = p
                   THEN [lockFile EXCEPT !.owner = "dead"] ELSE lockFile
  /\ ForgetLocals(p)
  /\ tmpFile' = [tmpFile EXCEPT ![p] = "none"]
  /\ UNCHANGED indexFile
  /\ UNCHANGED <<instVars, addVars>>
  /\ UNCHANGED restVars

\* Time passes while every process is idle or inside sleepMs: the lock file ages,
\* the waiting processes' clocks advance and their sleepMs(retryMs) returns.
Tick ==
  /\ \A p \in Procs : ppc[p] \in {"idle", "sleep"}
  /\ lockFile' = IF lockFile.present
                   THEN [lockFile EXCEPT !.age = Saturate(@, StaleTicks)] ELSE lockFile
  /\ elapsed' = [p \in Procs |->
       IF ppc[p] = "sleep" THEN Saturate(elapsed[p], TimeoutTicks) ELSE elapsed[p]]
  /\ ppc' = [p \in Procs |-> IF ppc[p] = "sleep" THEN "open" ELSE ppc[p]]
  /\ UNCHANGED <<indexFile, tmpFile, pop, pending, afterSave,
                 lockTries, foreignSave, crashes>>
  /\ UNCHANGED <<instVars, addVars>>
  /\ UNCHANGED restVars

StoreNext ==
  \/ \E p \in Procs : StartOp(p)
  \/ \E p \in Procs : loadIndex(p)
  \/ \E p \in Procs : withFileLock_open(p)
  \/ \E p \in Procs : withFileLock_stat(p)
  \/ \E p \in Procs : withFileLock_unlinkStale(p)
  \/ \E p \in Procs : withFileLock_check(p)
  \/ \E p \in Procs : writeJsonAtomic_write(p)
  \/ \E p \in Procs : writeJsonAtomic_writeEnd(p)
  \/ \E p \in Procs : writeJsonAtomic_rename(p)
  \/ \E p \in Procs : withFileLock_unlock(p)
  \/ \E p \in Procs : ExitOp(p)
  \/ \E p \in Procs : Crash(p)
  \/ Tick


-----------------------------------------------------------------------------
\* Paths. An absolute path is a sequence of segments that starts with "/".

Root == "/"
IsAbsolute(path) == path # <<>> /\ Head(path) = Root

dirname(path) == SubSeq(path, 1, Len(path) - 1)

RECURSIVE Normalize(_, _)
\* Applies the segments of rest to the absolute path acc: "." stays, ".." climbs.
Normalize(acc, rest) ==
  IF rest = <<>> THEN acc
  ELSE LET seg == Head(rest) IN
    IF seg = "." \/ seg = "" THEN Normalize(acc, Tail(rest))
    ELSE IF seg = ".."
      THEN Normalize(IF Len(acc) > 1 THEN dirname(acc) ELSE acc, Tail(rest))
      ELSE Normalize(Append(acc, seg), Tail(rest))

\* path.resolve(base, p): an absolute p replaces base.
resolve(base, path) ==
  IF IsAbsolute(path) THEN Normalize(<<Root>>, Tail(path))
  ELSE Normalize(Normalize(<<Root>>, Tail(base)), path)

\* path.join(base, segment), normalised.
join(base, seg) == Normalize(base, <<seg>>)

RECURSIVE CommonLen(_, _)
CommonLen(a, b) ==
  IF a = <<>> \/ b = <<>> \/ Head(a) # Head(b) THEN 0
  ELSE 1 + CommonLen(Tail(a), Tail(b))

\* path.relative(from, to) of two absolute paths.
relative(from, to) ==
  LET k == CommonLen(from, to) IN
    [i \in 1..(Len(from) - k) |-> ".."] \o SubSeq(to, k + 1, Len(to))

\* startsWith(base + sep) or equality, on normalised absolute paths.
StartsWithDir(path, base) ==
  Len(path) >= Len(base) /\ SubSeq(path, 1, Len(base)) = base

-----------------------------------------------------------------------------
\* sanitizeName, on names given as sequences of characters.

LowerOf(ch) ==
  CASE ch = "A" -> "a" [] ch = "B" -> "b" [] ch = "E" -> "e" [] ch = "P" -> "p"
    [] ch = "V" -> "v" [] OTHER -> ch

SafeNameChars ==
  {"a", "b", "c", "d", "e", "f", "g", "h", "i", "j", "k", "l", "m", "n", "o", "p", "q",
   "r", "s", "t", "u", "v", "w", "x", "y", "z", "0", "1", "2", "3", "4", "5", "6", "7",
   "8", "9", ".", "_"}

NameMax == 255

\* A sanitizeName that replaces nothing.
Mut_CollapseRuns(cs, inRun) == cs

RECURSIVE CollapseRuns(_, _)
\* .replace(/[^a-z0-9._]+/g, '-'): each run of other characters becomes one hyphen.
CollapseRuns(cs, inRun) ==
  IF cs = <<>> THEN <<>>
  ELSE IF Head(cs) \in SafeNameChars
    THEN <<Head(cs)>> \o CollapseRuns(Tail(cs), FALSE)
    ELSE (IF inRun THEN <<>> ELSE <<"-">>) \o CollapseRuns(Tail(cs), TRUE)

RECURSIVE StripLeading(_)
StripLeading(cs) ==
  IF cs # <<>> /\ Head(cs) \in {".", "-"} THEN StripLeading(Tail(cs)) ELSE cs

RECURSIVE StripTrailing(_)
StripTrailing(cs) ==
  IF cs # <<>> /\ cs[Len(cs)] \in {".", "-"}
    THEN StripTrailing(SubSeq(cs, 1, Len(cs) - 1)) ELSE cs

RECURSIVE JoinChars(_)
JoinChars(cs) == IF cs = <<>> THEN "" ELSE Head(cs) \o JoinChars(Tail(cs))

\* sanitizeName before the fallback: the characters of sanitized.substring(0, 255).
sanitizeChars(name) ==
  LET lowered == [i \in 1..Len(name) |-> LowerOf(name[i])]
      sanitized == StripTrailing(StripLeading(CollapseRuns(lowered, FALSE)))
  IN SubSeq(sanitized, 1, IF Len(sanitized) < NameMax THEN Len(sanitized) ELSE NameMax)

sanitizeName(name) ==
  IF sanitizeChars(name) = <<>> THEN "unnamed-skill" ELSE JoinChars(sanitizeChars(name))

-----------------------------------------------------------------------------
\* The agent registry (agents.ts), four of its entries.

home == <<Root, "home">>
cwd == <<Root, "work">>

AgentTypes == {"claude-code", "amp", "kimi-cli", "replit"}

\* globalSkillsDir undefined is the empty sequence.
agents(a) ==
  CASE a = "claude-code" ->
         [skillsDir |-> <<".claude", "skills">>,
          globalSkillsDir |-> home \o <<".claude", "skills">>]
    [] a = "amp" ->
         [skillsDir |-> <<".agents", "skills">>,
          globalSkillsDir |-> home \o <<".config", "agents", "skills">>]
    [] a = "kimi-cli" ->
         [skillsDir |-> <<".agents", "skills">>,
          globalSkillsDir |-> home \o <<".config", "agents", "skills">>]
    [] a = "replit" ->
         [skillsDir |-> <<".agent", "skills">>,
          globalSkillsDir |-> <<>>]

\* isPathSafe(basePath, targetPath) of the installer.
isPathSafe(basePath, targetPath) ==
  StartsWithDir(resolve(<<Root>>, targetPath), resolve(<<Root>>, basePath))

AgentBase(a, isGlobal) ==
  IF isGlobal THEN agents(a).globalSkillsDir ELSE cwd \o agents(a).skillsDir

\* getAgentSkillPath: null (the empty sequence) when the agent has no global directory.
getAgentSkillPath(skillName, a, isGlobal) ==
  IF isGlobal /\ agents(a).globalSkillsDir = <<>> THEN <<>>
  ELSE join(AgentBase(a, isGlobal), sanitizeName(skillName))

-----------------------------------------------------------------------------
\* The skills installed in the model and the disk.

SKILLS_DIR == home \o <<".vett", "skills">>

\* getSkillDir(owner, repo, name); repo null is "".
getSkillDir(owner, repo, name) ==
  IF repo # "" THEN SKILLS_DIR \o <<owner, repo, name>> ELSE SKILLS_DIR \o <<owner, name>>

\* Two skills: their canonical directory and the display name handed to the installer.
Skill1 == [canonical |-> getSkillDir("acme", "tools", "pdf"), name |-> <<"P", "d", "f">>]
Skill2 == [canonical |-> getSkillDir("evil", "", "ev"), name |-> <<".", ".", "/", "E", "v">>]
SkillSet == {Skill1, Skill2}

\* A skill of another owner and repository that has the name of the first.
Skill3 == [canonical |-> getSkillDir("other", "kit", "pdf"), name |-> <<"p", "d", "f">>]

\* The canonical directories the user acts upon in the installer's behaviours.
UserCanon == {sk.canonical : sk \in SkillSet}

CanonPaths == {sk.canonical : sk \in SkillSet \cup {Skill3}}
Elsewhere == home \o <<"elsewhere">>

\* The files of a canonical skill directory, in the order cp copies them.
CanonFiles == <<"SKILL.md", "notes.md">>
AllFiles == {CanonFiles[i] : i \in 1..Len(CanonFiles)}

\* The installToAgents calls made in the model: the agent list, the skill, the scope.
BatchInputs ==
  {[agents |-> {"claude-code"}, skill |-> Skill1, global |-> TRUE],
   [agents |-> {"claude-code", "amp"}, skill |-> Skill1, global |-> TRUE],
   [agents |-> {"amp", "kimi-cli"}, skill |-> Skill1, global |-> TRUE],
   [agents |-> {"replit"}, skill |-> Skill1, global |-> TRUE],
   [agents |-> {"replit"}, skill |-> Skill1, global |-> FALSE],
   [agents |-> {"claude-code"}, skill |-> Skill2, global |-> TRUE]}

LinkPaths ==
  UNION {{getAgentSkillPath(b.skill.name, a, b.global) : a \in b.agents} : b \in BatchInputs}
    \ {<<>>}

NoEntry == [kind |-> "none", target |-> <<>>, files |-> {}]
LinkEntry(text) == [kind |-> "link", target |-> text, files |-> {}]
DirEntry(fs) == [kind |-> "dir", target |-> <<>>, files |-> fs]

\* The disk as one value: what the installer's system calls read and write.
Disk == [entries |-> entries, canon |-> canon, symlinkOk |-> symlinkOk]

\* existsSync(path), following a symbolic link at the path.
RECURSIVE existsSync(_, _, _)
existsSync(d, path, fuel) ==
  IF path = Elsewhere THEN TRUE
  ELSE IF path \in CanonPaths THEN d.canon[path]
  ELSE IF path \in LinkPaths
    THEN LET e == d.entries[path] IN
      IF e.kind = "link"
        THEN fuel > 0 /\ existsSync(d, resolve(dirname(path), e.target), fuel - 1)
        ELSE e.kind # "none"
    ELSE FALSE

-----------------------------------------------------------------------------
\* installToAgent, one step per awaited system call. A call is a record
\* [pc, agent, name, canonical, global, path, mode, success].

NoCall == [pc |-> "none", agent |-> "", name |-> <<>>, canonical |-> <<>>,
           global |-> TRUE, path |-> <<>>, mode |-> "symlink", success |-> FALSE,
           fallback |-> FALSE]

NewCall(a, sk, g) ==
  [pc |-> "start", agent |-> a, name |-> sk.name, canonical |-> sk.canonical,
   global |-> g, path |-> <<>>, mode |-> "symlink", success |-> FALSE,
   fallback |-> FALSE]

Finish(d, c, mode, ok) ==
  [d |-> d, c |-> [c EXCEPT !.pc = "done", !.mode = mode, !.success = ok]]
Goto(d, c, pc) == [d |-> d, c |-> [c EXCEPT !.pc = pc]]
SetEntry(d, path, e) == [d EXCEPT !.entries[path] = e]

\* The scope test, the path computation and isPathSafe, mkdir(agentBase), and the
\* self-reference test of createSymlink.
Step_start(d, c) ==
  IF c.global /\ agents(c.agent).globalSkillsDir = <<>>
    THEN Finish(d, c, "symlink", FALSE)
  ELSE LET agentBase == AgentBase(c.agent, c.global)
           agentSkillDir == join(agentBase, sanitizeName(c.name))
           c1 == [c EXCEPT !.path = agentSkillDir]
       IN IF ~isPathSafe(agentBase, agentSkillDir)
            THEN Finish(d, c1, "symlink", FALSE)
          ELSE IF resolve(<<Root>>, c.canonical) = resolve(<<Root>>, agentSkillDir)
            THEN Finish(d, c1, "symlink", TRUE)
          ELSE Goto(d, c1, "lstat")

\* lstat that goes on to symlink() whenever something is at the path.
Mut_Step_lstat(d, c) ==
  Goto(d, c, "symlink")

\* createSymlink: lstat(linkPath).
Step_lstat(d, c) ==
  LET e == d.entries[c.path] IN
    IF e.kind = "none" THEN Goto(d, c, "symlink")
    ELSE IF e.kind = "link" THEN Goto(d, c, "readlink")
    ELSE Goto(d, c, "rmRecursive")

\* createSymlink: readlink(linkPath) and the comparison with the resolved target.
Step_readlink(d, c) ==
  LET e == d.entries[c.path] IN
    IF e.kind # "link" THEN Goto(d, c, "symlink")
    ELSE IF resolve(dirname(c.path), e.target) = resolve(<<Root>>, c.canonical)
      THEN Finish(d, c, "symlink", TRUE)
    ELSE Goto(d, c, "rm")

\* createSymlink: rm(linkPath) of a symbolic link pointing elsewhere; it throws,
\* and the error is swallowed, when nothing or a directory is there.
Step_rm(d, c) ==
  LET e == d.entries[c.path] IN
    IF e.kind = "link" THEN Goto(SetEntry(d, c.path, NoEntry), c, "symlink")
    ELSE Goto(d, c, "symlink")

\* createSymlink: rm(linkPath, {recursive: true}) of a real file or directory.
Step_rmRecursive(d, c) ==
  Goto(SetEntry(d, c.path, NoEntry), c, "symlink")

\* createSymlink: mkdir(linkDir) and symlink(relativePath, linkPath); false on any error.
Step_symlink(d, c) ==
  LET e == d.entries[c.path] IN
    IF d.symlinkOk = "yes" /\ e.kind = "none"
      THEN Finish(SetEntry(d, c.path, LinkEntry(relative(dirname(c.path), c.canonical))),
                  c, "symlink", TRUE)
      ELSE Goto(d, [c EXCEPT !.fallback = TRUE], "fallbackRm")

\* installToAgent: rm(agentSkillDir, {recursive: true, force: true}).
Step_fallbackRm(d, c) ==
  Goto(SetEntry(d, c.path, NoEntry), c, "cp")

\* A cp that does not throw when its source is missing.
Mut_Step_cp(d, c) ==
  Goto(SetEntry(d, c.path, DirEntry({CanonFiles[1]})), c, "cpEnd")

\* installToAgent: cp(canonicalPath, agentSkillDir, {recursive: true}) creates the
\* directory and copies the first file; it throws when the source is missing or
\* the destination is a link to the source itself.
Step_cp(d, c) ==
  LET e == d.entries[c.path] IN
    IF ~existsSync(d, c.canonical, 2) \/ e.kind = "link"
      THEN Finish(d, c, "symlink", FALSE)
      ELSE Goto(SetEntry(d, c.path, DirEntry(e.files \cup {CanonFiles[1]})), c, "cpEnd")

\* cp copies the remaining files; it throws when the directory it was filling is gone.
Step_cpEnd(d, c) ==
  LET e == d.entries[c.path] IN
    IF e.kind # "dir"
      THEN Finish(d, c, "symlink", FALSE)
      ELSE Finish(SetEntry(d, c.path, DirEntry(e.files \cup AllFiles)), c, "copy", TRUE)

InstStep(d, c) ==
  CASE c.pc = "start" -> Step_start(d, c)
    [] c.pc = "lstat" -> Step_lstat(d, c)
    [] c.pc = "readlink" -> Step_readlink(d, c)
    [] c.pc = "rm" -> Step_rm(d, c)
    [] c.pc = "rmRecursive" -> Step_rmRecursive(d, c)
    [] c.pc = "symlink" -> Step_symlink(d, c)
    [] c.pc = "fallbackRm" -> Step_fallbackRm(d, c)
    [] c.pc = "cp" -> Step_cp(d, c)
    [] c.pc = "cpEnd" -> Step_cpEnd(d, c)
    [] OTHER -> [d |-> d, c |-> c]

RECURSIVE RunCall(_, _)
\* installToAgent run to its return with nothing else touching the disk.
RunCall(d, c) ==
  IF c.pc \in {"done", "none"} THEN [d |-> d, c |-> c]
  ELSE LET r == InstStep(d, c) IN RunCall(r.d, r.c)

installToAgent(d, canonicalPath, skillName, a, isGlobal) ==
  RunCall(d, NewCall(a, [canonical |-> canonicalPath, name |-> skillName], isGlobal))

\* checkSymlinkStatus comparing the text of the link, unresolved, with the expected target.
Mut_checkSymlinkStatus(d, linkPath, expectedTarget) ==
  LET e == d.entries[linkPath] IN
    IF e.kind = "none" THEN "missing"
    ELSE IF e.kind # "link" THEN "copy"
    ELSE IF e.target # expectedTarget THEN "wrong_target"
    ELSE IF ~existsSync(d, e.target, 2) THEN "broken"
    ELSE "ok"

\* checkSymlinkStatus(linkPath, expectedTarget).
checkSymlinkStatus(d, linkPath, expectedTarget) ==
  LET e == d.entries[linkPath] IN
    IF e.kind = "none" THEN "missing"
    ELSE IF e.kind # "link" THEN "copy"
    ELSE LET resolvedTarget == resolve(dirname(linkPath), e.target)
             resolvedExpected == resolve(<<Root>>, expectedTarget)
         IN IF resolvedTarget # resolvedExpected THEN "wrong_target"
            ELSE IF ~existsSync(d, resolvedTarget, 2) THEN "broken"
            ELSE "ok"

-----------------------------------------------------------------------------
\* installToAgents and the user's changes to the disk.

MaxBatches == 2
MaxEnvSteps == 1

\* The installations the index records: a skill, an agent of its agent list, the
\* scope. add records every target agent, whether or not installing to it succeeded.
RecordedPairs ==
  UNION {{[skill |-> b.skill, agent |-> a, global |-> b.global] : a \in b.agents} :
         b \in BatchInputs}

\* The recorded installations the scan of sync checks: `if (!pathInfo) continue`.
SyncTargets ==
  {t \in RecordedPairs : getAgentSkillPath(t.skill.name, t.agent, t.global) # <<>>}

NoScan == [t \in {} |-> "missing"]

NoBatch == [state |-> "none", agents |-> {}, skill |-> Skill1, global |-> TRUE]

Running == \E a \in AgentTypes : calls[a].pc \notin {"none", "done"}

\* sync before its repair loop has started.
NoFix == [pc |-> "idle", issues |-> {}, cur |-> {}, fixed |-> 0, failed |-> 0,
          refused |-> {}, relinked |-> {}]

\* An installToAgents or the repair loop of sync is under way.
Busy ==
  \/ Running \/ fix.pc = "fixing" \/ syncNew.pc \in {"repairing", "adding"}
  \/ removal.pc \in {"agents", "canonical", "index"}

\* installToAgents: Promise.all over installToAgent for each agent of the list.
installToAgents(b) ==
  /\ symlinkOk' \in (IF symlinkOk = "unknown" THEN {"yes", "no"} ELSE {symlinkOk})
  /\ batch' = [state |-> "running", agents |-> b.agents, skill |-> b.skill,
               global |-> b.global]
  /\ calls' = [a \in AgentTypes |->
                IF a \in b.agents THEN NewCall(a, b.skill, b.global) ELSE NoCall]
  /\ scan' = NoScan
  /\ fix' = NoFix

\* A command (sync, or a test of the installer) calls installToAgents.
CallInstallToAgents(b) ==
  /\ ~Busy
  /\ batches < MaxBatches
  /\ batches' = batches + 1
  /\ installToAgents(b)
  /\ UNCHANGED <<entries, canon, envSteps>>
  /\ UNCHANGED <<storeVars, addVars>>
  /\ UNCHANGED restVars

\* One awaited step of one of the concurrent installToAgent calls.
InstallStep(a) ==
  /\ calls[a].pc \notin {"none", "done"}
  /\ LET r == InstStep(Disk, calls[a]) IN
       /\ entries' = r.d.entries
       /\ calls' = [calls EXCEPT ![a] = r.c]
       /\ batch' = IF \A b \in AgentTypes \ {a} : calls[b].pc \in {"none", "done"}
                        /\ r.c.pc = "done"
                     THEN [batch EXCEPT !.state = "joined"] ELSE batch
  /\ UNCHANGED <<canon, symlinkOk, batches, envSteps, scan, fix>>
  /\ UNCHANGED <<storeVars, addVars>>
  /\ UNCHANGED restVars

\* The user deletes what is at an agent skill path.
EnvRemoveEntry(l) ==
  /\ ~Busy /\ envSteps < MaxEnvSteps
  /\ entries[l].kind # "none"
  /\ entries' = [entries EXCEPT ![l] = NoEntry]
  /\ envSteps' = envSteps + 1
  /\ batch' = NoBatch
  /\ calls' = [a \in AgentTypes |-> NoCall]
  /\ scan' = NoScan
  /\ fix' = NoFix
  /\ UNCHANGED <<canon, symlinkOk, batches>>
  /\ UNCHANGED <<storeVars, addVars>>
  /\ UNCHANGED restVars

\* The user puts a real directory at an agent skill path.
EnvMakeDir(l) ==
  /\ ~Busy /\ envSteps < MaxEnvSteps
  /\ entries[l].kind # "dir"
  /\ entries' = [entries EXCEPT ![l] = DirEntry(AllFiles)]
  /\ envSteps' = envSteps + 1
  /\ batch' = NoBatch
  /\ calls' = [a \in AgentTypes |-> NoCall]
  /\ scan' = NoScan
  /\ fix' = NoFix
  /\ UNCHANGED <<canon, symlinkOk, batches>>
  /\ UNCHANGED <<storeVars, addVars>>
  /\ UNCHANGED restVars

\* The user points the link at an agent skill path at another directory.
EnvRetarget(l, t) ==
  /\ ~Busy /\ envSteps < MaxEnvSteps
  /\ symlinkOk # "no"
  /\ symlinkOk' = "yes"
  /\ entries[l] # LinkEntry(t)
  /\ entries' = [entries EXCEPT ![l] = LinkEntry(t)]
  /\ envSteps' = envSteps + 1
  /\ batch' = NoBatch
  /\ calls' = [a \in AgentTypes |-> NoCall]
  /\ scan' = NoScan
  /\ fix' = NoFix
  /\ UNCHANGED <<canon, batches>>
  /\ UNCHANGED <<storeVars, addVars>>
  /\ UNCHANGED restVars

\* The user deletes a canonical skill directory.
EnvDeleteCanonical(cp) ==
  /\ ~Busy /\ envSteps < MaxEnvSteps
  /\ canon[cp]
  /\ canon' = [canon EXCEPT ![cp] = FALSE]
  /\ envSteps' = envSteps + 1
  /\ batch' = NoBatch
  /\ calls' = [a \in AgentTypes |-> NoCall]
  /\ scan' = NoScan
  /\ fix' = NoFix
  /\ UNCHANGED <<entries, symlinkOk, batches>>
  /\ UNCHANGED <<storeVars, addVars>>
  /\ UNCHANGED restVars

\* sync: the scan of every recorded installation with checkSymlinkStatus.
sync_scan ==
  /\ ~Running
  /\ scan = NoScan
  /\ scan' = [t \in SyncTargets |->
               checkSymlinkStatus(Disk, getAgentSkillPath(t.skill.name, t.agent, t.global),
                                  t.skill.canonical)]
  /\ UNCHANGED <<entries, canon, symlinkOk, calls, batch, batches, envSteps, fix>>
  /\ UNCHANGED <<storeVars, addVars>>
  /\ UNCHANGED restVars

\* sync: the issues of the scan, the statuses other than ok and copy.
Issues == {t \in DOMAIN scan : scan[t] \notin {"ok", "copy"}}

\* A repair loop that does not look for the canonical path.
Mut_canFix(d, issue) == TRUE

\* sync --fix: `existsSync(issue.skill.path)`, the test that lets an issue be repaired.
canFix(d, issue) == existsSync(d, issue.skill.canonical, 2)

\* The loop variable moves on; the loop ends after the last issue.
FixAdvance(f, t) ==
  [f EXCEPT !.cur = {}, !.issues = f.issues \ {t},
            !.pc = IF f.issues \ {t} = {} THEN "done" ELSE "fixing"]

\* sync --fix: with issues found, the repair loop starts.
sync_fix ==
  /\ ~Running
  /\ scan # NoScan /\ fix.pc = "idle"
  /\ Issues # {}
  /\ fix' = [NoFix EXCEPT !.pc = "fixing", !.issues = Issues]
  /\ UNCHANGED <<entries, canon, symlinkOk, calls, batch, batches, envSteps, scan>>
  /\ UNCHANGED <<storeVars, addVars>>
  /\ UNCHANGED restVars

\* sync --fix, one issue: without its canonical path the issue is counted as
\* failed; otherwise installToAgent is called for the skill and the agent.
sync_fixIssue(t) ==
  /\ fix.pc = "fixing" /\ fix.cur = {} /\ t \in fix.issues
  /\ batch' = NoBatch
  /\ IF ~canFix(Disk, t)
       THEN /\ fix' = FixAdvance([fix EXCEPT !.failed = @ + 1,
                                              !.refused = @ \cup {t}], t)
            /\ calls' = [a \in AgentTypes |-> NoCall]
            /\ UNCHANGED symlinkOk
       ELSE /\ fix' = [fix EXCEPT !.cur = {t}, !.relinked = @ \cup {t}]
            /\ calls' = [a \in AgentTypes |->
                          IF a = t.agent THEN NewCall(a, t.skill, t.global) ELSE NoCall]
            /\ symlinkOk' \in (IF symlinkOk = "unknown" THEN {"yes", "no"}
                                                        ELSE {symlinkOk})
  /\ UNCHANGED <<entries, canon, batches, envSteps, scan>>
  /\ UNCHANGED <<storeVars, addVars>>
  /\ UNCHANGED restVars

\* sync --fix: installToAgent has returned; its result is counted.
sync_fixResult(t) ==
  /\ fix.pc = "fixing" /\ fix.cur = {t}
  /\ calls[t.agent].pc = "done"
  /\ fix' = FixAdvance(IF calls[t.agent].success
                         THEN [fix EXCEPT !.fixed = @ + 1]
                         ELSE [fix EXCEPT !.failed = @ + 1], t)
  /\ UNCHANGED <<entries, canon, symlinkOk, calls, batch, batches, envSteps, scan>>
  /\ UNCHANGED <<storeVars, addVars>>
  /\ UNCHANGED restVars

InstNext ==
  \/ \E b \in BatchInputs : CallInstallToAgents(b)
  \/ \E a \in AgentTypes : InstallStep(a)
  \/ \E l \in LinkPaths : EnvRemoveEntry(l)
  \/ \E l \in LinkPaths : EnvMakeDir(l)
  \/ \E l \in LinkPaths, t \in UserCanon \cup {Elsewhere} : EnvRetarget(l, t)
  \/ \E cp \in UserCanon : EnvDeleteCanonical(cp)
  \/ sync_scan
  \/ sync_fix
  \/ \E t \in SyncTargets : sync_fixIssue(t)
  \/ \E t \in SyncTargets : sync_fixResult(t)

-----------------------------------------------------------------------------
\* sync --fix --add-new: the installed skills offered to newly detected agents

\* The keys of the agents object in their order, which detectInstalledAgents keeps.
AgentOrder == <<"claude-code", "amp", "replit", "kimi-cli">>

\* The index the sync loads: one record, of the first skill at global scope, with
\* an agent list that an add recorded.
SyncRecords == {b \in BatchInputs : b.skill = Skill1 /\ b.global}

\* detectInstalledAgents: the agents whose directory exists on the machine.
DetectedSets == {{}, {"amp"}, {"claude-code", "amp"}, {"amp", "kimi-cli", "replit"}}

NoSyncNew == [pc |-> "idle", record |-> [agents |-> {}, skill |-> Skill1, global |-> TRUE],
              detected |-> {}, todo |-> <<>>, cur |-> "", called |-> {},
              succeeded |-> {}, fixed |-> 0, failed |-> 0, agents |-> {}, saved |-> {}]

\* The installations of one record that the scan checks.
TargetsOf(b) ==
  {t \in SyncTargets : t.skill = b.skill /\ t.global = b.global /\ t.agent \in b.agents}

\* sync: newAgentSkills, the detected agents that the record's agent list lacks.
newAgentSkills(b, detectedAgents) ==
  SelectSeq(AgentOrder, LAMBDA a : a \in detectedAgents /\ a \notin b.agents)

\* sync: loadIndex, detectInstalledAgents and the scan of the record. With no issue
\* and no new agent the command returns: "All installations are in sync".
sync_addNewScan(b, detectedAgents) ==
  /\ ~Busy /\ syncNew.pc = "idle"
  /\ scan' = [t \in TargetsOf(b) |->
               checkSymlinkStatus(Disk, getAgentSkillPath(t.skill.name, t.agent, t.global),
                                  t.skill.canonical)]
  /\ fix' = NoFix
  /\ syncNew' = [NoSyncNew EXCEPT
                   !.pc = IF /\ \A t \in DOMAIN scan' : scan'[t] \in {"ok", "copy"}
                             /\ newAgentSkills(b, detectedAgents) = <<>>
                            THEN "done" ELSE "repairing",
                   !.record = b, !.detected = detectedAgents,
                   !.todo = newAgentSkills(b, detectedAgents),
                   !.agents = b.agents, !.saved = b.agents]
  /\ UNCHANGED <<entries, canon, symlinkOk, calls, batch, batches, envSteps>>
  /\ UNCHANGED <<storeVars, addVars, migVars, within, call, cmd, removal>>

\* sync has reached `if (options.addNew)` after its repair loop.
AtAddNew ==
  \/ syncNew.pc = "adding"
  \/ syncNew.pc = "repairing" /\ ~Running /\ (Issues = {} \/ fix.pc = "done")

\* sync --add-new, one new agent: installToAgent is called for the skill and the agent.
sync_addNewInstall ==
  /\ AtAddNew /\ syncNew.cur = "" /\ syncNew.todo # <<>>
  /\ LET a == Head(syncNew.todo) IN
       /\ syncNew' = [syncNew EXCEPT !.pc = "adding", !.cur = a, !.called = @ \cup {a}]
       /\ calls' = [x \in AgentTypes |->
                     IF x = a THEN NewCall(a, syncNew.record.skill, syncNew.record.global)
                              ELSE NoCall]
  /\ batch' = NoBatch
  /\ symlinkOk' \in (IF symlinkOk = "unknown" THEN {"yes", "no"} ELSE {symlinkOk})
  /\ UNCHANGED <<entries, canon, batches, envSteps, scan, fix>>
  /\ UNCHANGED <<storeVars, addVars, migVars, within, call, cmd, removal>>

\* A loop that counts a successful install without adding the agent to the record.
Mut_sync_addNewResult ==
  /\ syncNew.pc = "adding" /\ syncNew.cur # ""
  /\ calls[syncNew.cur].pc = "done"
  /\ syncNew' = IF calls[syncNew.cur].success
                  THEN [syncNew EXCEPT !.succeeded = @ \cup {syncNew.cur},
                                       !.fixed = @ + 1,
                                       !.todo = Tail(@), !.cur = ""]
                  ELSE [syncNew EXCEPT !.failed = @ + 1, !.todo = Tail(@), !.cur = ""]
  /\ UNCHANGED instVars
  /\ UNCHANGED <<storeVars, addVars, migVars, within, call, cmd, removal>>

\* sync --add-new: installToAgent has returned; on success the agent joins the
\* agent list of the record in memory.
sync_addNewResult ==
  /\ syncNew.pc = "adding" /\ syncNew.cur # ""
  /\ calls[syncNew.cur].pc = "done"
  /\ syncNew' = IF calls[syncNew.cur].success
                  THEN [syncNew EXCEPT !.agents = @ \cup {syncNew.cur},
                                       !.succeeded = @ \cup {syncNew.cur},
                                       !.fixed = @ + 1,
                                       !.todo = Tail(@), !.cur = ""]
                  ELSE [syncNew EXCEPT !.failed = @ + 1, !.todo = Tail(@), !.cur = ""]
  /\ UNCHANGED instVars
  /\ UNCHANGED <<storeVars, addVars, migVars, within, call, cmd, removal>>

\* sync --add-new: `saveIndex(index)` after the loop, which writes the records in
\* memory or throws when the lock of the index cannot be taken in time.
sync_saveIndex(locked) ==
  /\ AtAddNew /\ syncNew.cur = "" /\ syncNew.todo = <<>>
  /\ syncNew' = IF locked THEN [syncNew EXCEPT !.pc = "done", !.saved = syncNew.agents]
                          ELSE [syncNew EXCEPT !.pc = "threw"]
  /\ UNCHANGED instVars
  /\ UNCHANGED <<storeVars, addVars, migVars, within, call, cmd, removal>>

\* The add that installed the skill and the changes of the disk come before the
\* sync starts; the repair loop is the one of sync --fix.
SyncNext ==
  \/ syncNew.pc = "idle" /\ batches = 0 /\ envSteps = 0
                         /\ \E b \in SyncRecords : CallInstallToAgents(b)
  \/ syncNew.pc = "idle" /\ \E l \in LinkPaths : EnvRemoveEntry(l)
  \/ syncNew.pc = "idle" /\ \E l \in LinkPaths : EnvMakeDir(l)
  \/ syncNew.pc = "idle" /\ \E l \in LinkPaths, t \in UserCanon \cup {Elsewhere} :
                              EnvRetarget(l, t)
  \/ syncNew.pc = "idle" /\ \E cp \in UserCanon : EnvDeleteCanonical(cp)
  \/ \E b \in SyncRecords, detectedAgents \in DetectedSets :
       sync_addNewScan(b, detectedAgents)
  \/ sync_fix
  \/ \E t \in SyncTargets : sync_fixIssue(t)
  \/ \E t \in SyncTargets : sync_fixResult(t)
  \/ sync_addNewInstall
  \/ \E a \in AgentTypes : InstallStep(a)
  \/ sync_addNewResult
  \/ \E locked \in BOOLEAN : sync_saveIndex(locked)

-----------------------------------------------------------------------------
\* remove, and the adds of two skills of one name before it

\* The adds made: the first skill for one agent and for two, then a skill of
\* another owner that has its name.
ShareInputs ==
  {[agents |-> {"claude-code"}, skill |-> Skill1, global |-> TRUE],
   [agents |-> {"claude-code", "amp"}, skill |-> Skill1, global |-> TRUE],
   [agents |-> {"claude-code"}, skill |-> Skill3, global |-> TRUE],
   [agents |-> {"replit"}, skill |-> Skill3, global |-> TRUE]}

NoRemoval == [index |-> {}, pc |-> "idle",
              record |-> [agents |-> {}, skill |-> Skill1, global |-> TRUE],
              pending |-> {}, failed |-> {}, canonFailed |-> FALSE]

\* add from installToAgents on: the calls start, and the record that
\* addInstalledSkill writes takes the place of the one the skill had.
remove_priorAdd(b) ==
  /\ ~Busy /\ removal.pc \in {"idle", "done"}
  /\ batches < MaxBatches
  /\ batches' = batches + 1
  /\ installToAgents(b)
  /\ removal' = [removal EXCEPT
                   !.index = {r \in @ : r.skill # b.skill} \cup {b}, !.pc = "idle"]
  /\ UNCHANGED <<entries, canon, envSteps>>
  /\ UNCHANGED <<storeVars, addVars, migVars, within, call, cmd, syncNew>>

\* isSafeToDelete: the path is below ~/.vett/skills and is not that directory.
isSafeToDelete(path) ==
  /\ isPathSafe(SKILLS_DIR, path)
  /\ path # SKILLS_DIR
  /\ Len(path) - Len(SKILLS_DIR) >= 1

\* remove up to the removals: the record is found by its full reference and its
\* path passes isSafeToDelete.
remove_start(r) ==
  /\ ~Busy /\ removal.pc = "idle"
  /\ r \in removal.index
  /\ isSafeToDelete(r.skill.canonical)
  /\ removal' = [removal EXCEPT
                   !.pc = IF r.agents = {} THEN "canonical" ELSE "agents",
                   !.record = r, !.pending = r.agents,
                   !.failed = {}, !.canonFailed = FALSE]
  /\ UNCHANGED instVars
  /\ UNCHANGED <<storeVars, addVars, migVars, within, call, cmd, syncNew>>

\* The step that ends the removals from the agents.
RemovalAdvance(rm, a) ==
  [rm EXCEPT !.pending = @ \ {a},
             !.pc = IF rm.pending \ {a} = {} THEN "canonical" ELSE "agents"]

\* removeFromAgent, one of the calls under Promise.all: nothing to remove for an
\* agent without a global directory; otherwise rm(agentSkillDir, {recursive,
\* force}), which removes what is there or throws, and the error is returned.
removeFromAgent(a, rmOk) ==
  /\ removal.pc = "agents" /\ a \in removal.pending
  /\ LET r == removal.record
         agentSkillDir == getAgentSkillPath(r.skill.name, a, r.global)
     IN IF agentSkillDir = <<>>
          THEN /\ rmOk
               /\ removal' = RemovalAdvance(removal, a)
               /\ UNCHANGED entries
        ELSE IF ~isPathSafe(AgentBase(a, r.global), agentSkillDir)
          THEN /\ rmOk
               /\ removal' = RemovalAdvance([removal EXCEPT !.failed = @ \cup {a}], a)
               /\ UNCHANGED entries
        ELSE IF rmOk
          THEN /\ removal' = RemovalAdvance(removal, a)
               /\ entries' = [entries EXCEPT ![agentSkillDir] = NoEntry]
        ELSE /\ entries[agentSkillDir].kind # "none"
             /\ removal' = RemovalAdvance([removal EXCEPT !.failed = @ \cup {a}], a)
             /\ UNCHANGED entries
  /\ UNCHANGED <<canon, symlinkOk, calls, batch, batches, envSteps, scan, fix>>
  /\ UNCHANGED <<storeVars, addVars, migVars, within, call, cmd, syncNew>>

\* remove: rm(skill.path, {recursive, force}) inside try; an error is logged as a
\* warning and the command goes on.
remove_rmCanonical(rmOk) ==
  /\ removal.pc = "canonical"
  /\ IF rmOk
       THEN /\ canon' = [canon EXCEPT ![removal.record.skill.canonical] = FALSE]
            /\ removal' = [removal EXCEPT !.pc = "index"]
       ELSE /\ canon[removal.record.skill.canonical]
            /\ removal' = [removal EXCEPT !.pc = "index", !.canonFailed = TRUE]
            /\ UNCHANGED canon
  /\ UNCHANGED <<entries, symlinkOk, calls, batch, batches, envSteps, scan, fix>>
  /\ UNCHANGED <<storeVars, addVars, migVars, within, call, cmd, syncNew>>

\* remove: removeInstalledSkill(owner, repo, name) filters the record out of the
\* index and saves it; "Removed" and "Done" follow.
remove_removeInstalledSkill ==
  /\ removal.pc = "index"
  /\ removal' = [removal EXCEPT !.pc = "done", !.index = @ \ {removal.record}]
  /\ UNCHANGED instVars
  /\ UNCHANGED <<storeVars, addVars, migVars, within, call, cmd, syncNew>>

RemoveNext ==
  \/ \E b \in ShareInputs : remove_priorAdd(b)
  \/ \E a \in AgentTypes : InstallStep(a)
  \/ \E r \in ShareInputs : remove_start(r)
  \/ \E a \in AgentTypes, rmOk \in BOOLEAN : removeFromAgent(a, rmOk)
  \/ \E rmOk \in BOOLEAN : remove_rmCanonical(rmOk)
  \/ remove_removeInstalledSkill

\* The installations that the index holds: one for each agent of each record.
IndexTargets ==
  UNION {{[skill |-> r.skill, agent |-> a, global |-> r.global] : a \in r.agents} :
         r \in removal.index}

\* sync over the index that the adds have written: the scan of each recorded
\* installation whose agent has a path, with checkSymlinkStatus.
sync_scanIndex ==
  /\ ~Busy /\ removal.pc = "idle"
  /\ removal.index # {}
  /\ scan = NoScan
  /\ scan' = [t \in {x \in IndexTargets :
                       getAgentSkillPath(x.skill.name, x.agent, x.global) # <<>>} |->
               checkSymlinkStatus(Disk, getAgentSkillPath(t.skill.name, t.agent, t.global),
                                  t.skill.canonical)]
  /\ UNCHANGED <<entries, canon, symlinkOk, calls, batch, batches, envSteps, fix>>
  /\ UNCHANGED <<storeVars, addVars>>
  /\ UNCHANGED restVars

\* sync --fix over an index that may hold two skills of one name.
SharedNext ==
  \/ \E b \in ShareInputs : remove_priorAdd(b)
  \/ \E a \in AgentTypes : InstallStep(a)
  \/ sync_scanIndex
  \/ sync_fix
  \/ \E t \in DOMAIN scan : sync_fixIssue(t)
  \/ \E t \in DOMAIN scan : sync_fixResult(t)

-----------------------------------------------------------------------------
\* The add command (commands/add.ts) for one skill, acme/tools/pdf.

MaxAdds == 2

\* The CLI process that runs add.
AddProc == "p1"

skillDir == getSkillDir("acme", "tools", "pdf")
AddSkill == [canonical |-> skillDir, name |-> <<"p", "d", "f">>]

\* Manifest file paths, as segments relative to the skill directory.
F1 == <<"SKILL.md">>
F2 == <<"ref", "notes.md">>
FUp == <<"..", "x">>
Manifests == {<<F1, F2>>, <<F2, F1>>, <<F1, FUp>>}
FilesOf(files) == {files[k] : k \in 1..Len(files)}

\* What add is given: the version's risk and signature as the registry returns
\* them (a signature is over one byte sequence: "compact" and "spaced" name two
\* serializations of the manifest, JSON.stringify's and one with other white
\* space), the serialization and the files of the downloaded manifest, the
\* signature scheme of the CLI (the Sigstore bundle of part_013, the detached
\* signature of signatures.ts), and the agents selected.
AddInputs ==
  [risk : {"low"},
   sigstoreBundle : {"compact"},
   form : {"compact"},
   verifier : {"sigstore"},
   files : Manifests,
   agents : {{}, {"claude-code"}, {"amp", "kimi-cli"}}]
  \cup
  [risk : {"low"},
   sigstoreBundle : {"none", "forged"},
   form : {"compact"},
   verifier : {"sigstore"},
   files : Manifests,
   agents : {{"claude-code"}}]
  \cup
  [risk : {"critical"},
   sigstoreBundle : {"none", "compact"},
   form : {"compact"},
   verifier : {"sigstore"},
   files : {<<F1, F2>>},
   agents : {{}}]
  \cup
  [risk : {"low"},
   sigstoreBundle : {"compact", "spaced"},
   form : {"compact", "spaced"},
   verifier : {"sigstore", "detached"},
   files : {<<F1, F2>>},
   agents : {{}}]
  \cup
  [risk : {"low"},
   sigstoreBundle : {"compact"},
   form : {"compact"},
   verifier : {"sigstore"},
   files : {<<F1>>},
   agents : {{}}]

NoInput == [risk |-> "low", sigstoreBundle |-> "none", form |-> "compact",
            verifier |-> "sigstore", files |-> <<F1>>, agents |-> {}]

\* A byte sequence: a serialization of a manifest.
NoBytes == [form |-> "none", files |-> <<>>]

\* downloadArtifact: the bytes of the manifest as the registry serves them.
downloadArtifact(in) == [form |-> in.form, files |-> in.files]

\* JSON.parse of the manifest bytes: the manifest, whatever its serialization.
JSONparse(bytes) == bytes.files

\* serializeManifest: Buffer.from(JSON.stringify(manifest)).
serializeManifest(manifest) == [form |-> "compact", files |-> manifest]

NoAdd == [pc |-> "idle", in |-> NoInput, i |-> 0, verified |-> FALSE,
          handed |-> NoBytes, checked |-> {}, written |-> {}, outcome |-> "none"]

\* The paths below the skill directory and what can be there: "none", "file",
\* "partial" (a file opened for writing whose content has not been written),
\* "dir", "link" (a symbolic link to something that exists outside the skill
\* directory), "dangling" (a symbolic link to nothing).
StorePaths == {F1, <<"ref">>, F2}
InstalledStore == (F1 :> "file") @@ (<<"ref">> :> "dir") @@ (F2 :> "file")

NodeAt(fs, path) == IF path \in StorePaths THEN fs[path] ELSE "none"

Snapshot == [storeFs |-> storeFs, escaped |-> escaped, entries |-> entries, canon |-> canon]

\* A getVerdict that only cautions against a critical risk.
Mut_getVerdict(risk) ==
  CASE risk \in {"none", "low"} -> "verified"
    [] risk = "medium" -> "review"
    [] OTHER -> "caution"

getVerdict(risk) ==
  CASE risk \in {"none", "low"} -> "verified"
    [] risk = "medium" -> "review"
    [] risk = "high" -> "caution"
    [] OTHER -> "blocked"

\* isPathSafe of the manifest schema: relative, no ".." segment.
isPathSafe_manifest(filePath) ==
  /\ filePath # <<>>
  /\ Head(filePath) # Root
  /\ \A k \in 1..Len(filePath) : filePath[k] # ".."

\* createSkillManifestSchema(...).safeParse succeeds.
manifestValid(files) ==
  Len(files) >= 1 /\ \A k \in 1..Len(files) : isPathSafe_manifest(files[k])

\* verifySigstoreBundle does not throw: sigstore's verify accepts the bundle for
\* the bytes, which it does when the bundle was made over these very bytes.
verifySigstoreBundle(manifestBytes, bundle) == bundle = manifestBytes.form

\* A verifyManifestOrThrow that lets a version without a bundle pass.
Mut_verifyManifestOrThrow(manifestBytes, version) ==
  IF version.sigstoreBundle = "none" THEN "ok"
  ELSE IF verifySigstoreBundle(manifestBytes, version.sigstoreBundle) THEN "ok"
  ELSE "invalid"

\* verifyManifestOrThrow (part_013): "ok", or the error it throws.
verifyManifestOrThrow(manifestBytes, version) ==
  IF version.sigstoreBundle = "none" THEN "missing"
  ELSE IF verifySigstoreBundle(manifestBytes, version.sigstoreBundle) THEN "ok"
  ELSE "invalid"

\* verifyManifestOrThrow (signatures.ts): the bytes it verifies the detached
\* signature against are serializeManifest(manifest).
verifyManifestOrThrow_detached(manifest, signatureMeta) ==
  IF signatureMeta.sigstoreBundle = "none" THEN "missing"
  ELSE IF signatureMeta.sigstoreBundle = serializeManifest(manifest).form THEN "ok"
  ELSE "invalid"

\* The bytes that reach the signature check, under each of the two schemes.
BytesVerified(in) ==
  IF in.verifier = "sigstore" THEN downloadArtifact(in)
  ELSE serializeManifest(JSONparse(downloadArtifact(in)))

\* assertPathWithinBase does not throw.
assertPathWithinBase(baseDir, filePath) ==
  StartsWithDir(resolve(baseDir, filePath), resolve(<<Root>>, baseDir))

\* existsSync of a path below the skill directory; it follows symbolic links.
existsBelow(fs, path) == NodeAt(fs, path) \in {"file", "partial", "dir", "link"}

\* assertNoSymlinkPathComponents does not throw: no existing component of the
\* path is a symbolic link, and the path ends inside the base.
assertNoSymlinkPathComponents(fs, baseDir, relativePath) ==
  LET segments == SelectSeq(relativePath, LAMBDA sg : sg # "" /\ sg # ".")
  IN /\ \A k \in 1..Len(segments) :
          LET current == SubSeq(segments, 1, k) IN
            existsBelow(fs, current) => NodeAt(fs, current) \notin {"link", "dangling"}
     /\ StartsWithDir(resolve(baseDir, segments), resolve(<<Root>>, baseDir))

\* A loop of installSkillFiles that ends after the first file.
Mut_installSkillFiles_more(files, i) == i <= 1

\* for (const file of manifest.files): there is a file left.
installSkillFiles_more(files, i) == i <= Len(files)

Exit(a, outcome) == [a EXCEPT !.pc = "exited", !.outcome = outcome]

\* add starts: the skill is resolved, the version selected, and a version of
\* critical risk is refused.
AddStart(in) ==
  /\ add.pc \in {"idle", "exited"}
  /\ ppc[AddProc] = "idle"
  /\ ~Running
  /\ adds < MaxAdds
  /\ adds' = adds + 1
  /\ snap' = Snapshot
  /\ add' = IF getVerdict(in.risk) = "blocked"
              THEN Exit([NoAdd EXCEPT !.in = in], "blocked")
              ELSE [NoAdd EXCEPT !.pc = "parse", !.in = in]
  /\ UNCHANGED <<storeFs, escaped>>
  /\ UNCHANGED <<storeVars, instVars>>
  /\ UNCHANGED restVars

\* The downloaded manifest is parsed and validated against the schema.
AddParse ==
  /\ add.pc = "parse"
  /\ add' = IF manifestValid(JSONparse(downloadArtifact(add.in)))
              THEN [add EXCEPT !.pc = "verify"]
              ELSE Exit(add, "invalid manifest")
  /\ UNCHANGED <<storeFs, escaped, snap, adds>>
  /\ UNCHANGED <<storeVars, instVars>>
  /\ UNCHANGED restVars

\* The signature is verified: verifyManifestOrThrow of part_013 is handed the
\* downloaded bytes, that of signatures.ts the parsed manifest; an error ends add
\* with exit code 1.
AddVerify ==
  /\ add.pc = "verify"
  /\ LET res == IF add.in.verifier = "sigstore"
                  THEN verifyManifestOrThrow(downloadArtifact(add.in), add.in)
                  ELSE verifyManifestOrThrow_detached(JSONparse(downloadArtifact(add.in)),
                                                      add.in)
     IN add' = IF res = "ok"
                 THEN [add EXCEPT !.pc = "mkdir", !.verified = TRUE,
                                  !.handed = BytesVerified(add.in)]
                 ELSE Exit([add EXCEPT !.handed = BytesVerified(add.in)], "signature")
  /\ UNCHANGED <<storeFs, escaped, snap, adds>>
  /\ UNCHANGED <<storeVars, instVars>>
  /\ UNCHANGED restVars

\* installSkillFiles: mkdirSync(skillDir, {recursive: true}).
installSkillFiles_mkdir ==
  /\ add.pc = "mkdir"
  /\ canon' = [canon EXCEPT ![skillDir] = TRUE]
  /\ add' = [add EXCEPT !.pc = "files", !.i = 1]
  /\ UNCHANGED <<storeFs, escaped, snap, adds>>
  /\ UNCHANGED <<entries, symlinkOk, calls, batch, batches, envSteps, scan, fix>>
  /\ UNCHANGED storeVars
  /\ UNCHANGED restVars

\* installSkillFiles: the next file of the loop passes assertPathWithinBase and
\* assertNoSymlinkPathComponents, or the error they throw ends add.
installSkillFiles_check ==
  /\ add.pc = "files"
  /\ installSkillFiles_more(add.in.files, add.i)
  /\ LET file == add.in.files[add.i] IN
       add' = IF /\ assertPathWithinBase(skillDir, file)
                 /\ assertNoSymlinkPathComponents(storeFs, skillDir, file)
                THEN [add EXCEPT !.pc = "write", !.checked = @ \cup {file}]
                ELSE Exit(add, "threw")
  /\ UNCHANGED <<storeFs, escaped, snap, adds>>
  /\ UNCHANGED <<storeVars, instVars>>
  /\ UNCHANGED restVars

\* installSkillFiles: mkdirSync of the file's parent, and writeFileSync opens the
\* file itself for writing, truncating what it held; through a link to nothing
\* the open creates the file outside the skill directory.
installSkillFiles_write ==
  /\ add.pc = "write"
  /\ LET file == add.in.files[add.i]
         parent == dirname(file)
         parentOk == parent = <<>> \/ NodeAt(storeFs, parent) \in {"none", "dir"}
         made == IF parent # <<>> /\ parentOk
                   THEN [storeFs EXCEPT ![parent] = "dir"] ELSE storeFs
     IN IF ~parentOk \/ NodeAt(made, file) = "dir"
          THEN /\ add' = Exit(add, "threw")
               /\ storeFs' = made
               /\ UNCHANGED escaped
          ELSE /\ add' = [add EXCEPT !.pc = "writeEnd"]
               /\ storeFs' = IF NodeAt(made, file) = "dangling"
                               THEN made ELSE [made EXCEPT ![file] = "partial"]
               /\ escaped' = (escaped \/ NodeAt(made, file) = "dangling")
  /\ UNCHANGED <<snap, adds>>
  /\ UNCHANGED <<storeVars, instVars>>
  /\ UNCHANGED restVars

\* installSkillFiles: writeFileSync has written the content and closed the file.
installSkillFiles_writeEnd ==
  /\ add.pc = "writeEnd"
  /\ LET file == add.in.files[add.i] IN
       /\ add' = [add EXCEPT !.pc = "files", !.i = @ + 1, !.written = @ \cup {file}]
       /\ storeFs' = IF NodeAt(storeFs, file) = "partial"
                       THEN [storeFs EXCEPT ![file] = "file"] ELSE storeFs
  /\ UNCHANGED <<escaped, snap, adds>>
  /\ UNCHANGED <<storeVars, instVars>>
  /\ UNCHANGED restVars

\* addInstalledSkill begins in the process of the add.
StartAddInstalledSkill ==
  /\ ppc' = [ppc EXCEPT ![AddProc] = "load"]
  /\ pop' = [pop EXCEPT ![AddProc] = [kind |-> "add", name |-> "s1",
                                        agents |-> add.in.agents]]
  /\ UNCHANGED <<lockFile, indexFile, tmpFile, pending, afterSave,
                 elapsed, lockTries, foreignSave, crashes>>

\* After installSkillFiles: the scope and the target agents are determined and
\* installToAgents is called; with no agent, add goes on to addInstalledSkill.
AddInstallToAgents ==
  /\ add.pc = "files"
  /\ ~installSkillFiles_more(add.in.files, add.i)
  /\ IF add.in.agents = {}
       THEN /\ add' = [add EXCEPT !.pc = "indexing"]
            /\ StartAddInstalledSkill
            /\ UNCHANGED <<symlinkOk, batch, calls, scan, fix>>
       ELSE /\ add' = [add EXCEPT !.pc = "installing"]
            /\ installToAgents([agents |-> add.in.agents, skill |-> AddSkill,
                                global |-> TRUE])
            /\ UNCHANGED storeVars
  /\ UNCHANGED <<entries, canon, batches, envSteps>>
  /\ UNCHANGED <<storeFs, escaped, snap, adds>>
  /\ UNCHANGED restVars

\* installToAgents has returned: the results are reported, addInstalledSkill begins.
AddRecord ==
  /\ add.pc = "installing"
  /\ batch.state = "joined"
  /\ add' = [add EXCEPT !.pc = "indexing"]
  /\ StartAddInstalledSkill
  /\ UNCHANGED <<storeFs, escaped, snap, adds>>
  /\ UNCHANGED instVars
  /\ UNCHANGED restVars

\* addInstalledSkill has returned: the summary is printed and the process ends.
AddDone ==
  /\ add.pc = "indexing"
  /\ ppc[AddProc] = "done"
  /\ add' = Exit(add, "success")
  /\ ppc' = [ppc EXCEPT ![AddProc] = "idle"]
  /\ ForgetLocals(AddProc)
  /\ UNCHANGED <<lockFile, indexFile, tmpFile, crashes>>
  /\ UNCHANGED <<storeFs, escaped, snap, adds>>
  /\ UNCHANGED instVars
  /\ UNCHANGED restVars

\* The process running add is killed before addInstalledSkill has begun: the
\* disk stays as the last completed step left it; the installToAgent calls under
\* way and what the process held in memory end with it.
AddCrash ==
  /\ add.pc \notin {"idle", "exited", "indexing"}
  /\ crashes < MaxCrashes
  /\ crashes' = crashes + 1
  /\ add' = Exit([NoAdd EXCEPT !.in = add.in], "killed")
  /\ calls' = [a \in AgentTypes |-> NoCall]
  /\ batch' = NoBatch
  /\ UNCHANGED <<lockFile, indexFile, tmpFile, ppc, pop, pending, afterSave,
                 elapsed, lockTries, foreignSave>>
  /\ UNCHANGED <<entries, canon, symlinkOk, batches, envSteps, scan, fix>>
  /\ UNCHANGED <<storeFs, escaped, snap, adds>>
  /\ UNCHANGED restVars

\* Between two commands, someone replaces a path below the skill directory by
\* a symbolic link.
EnvPlantLink(path, kind) ==
  /\ add.pc \in {"idle", "exited"}
  /\ envSteps < MaxEnvSteps
  /\ envSteps' = envSteps + 1
  /\ storeFs' = [q \in StorePaths |->
                   IF q = path THEN kind
                   ELSE IF Len(q) > Len(path) /\ SubSeq(q, 1, Len(path)) = path THEN "none"
                   ELSE storeFs[q]]
  /\ add' = NoAdd
  /\ UNCHANGED <<escaped, snap, adds>>
  /\ UNCHANGED <<entries, canon, symlinkOk, calls, batch, batches, scan, fix>>
  /\ UNCHANGED storeVars
  /\ UNCHANGED restVars

AddNext ==
  \/ \E in \in AddInputs : AddStart(in)
  \/ AddParse
  \/ AddVerify
  \/ installSkillFiles_mkdir
  \/ installSkillFiles_check
  \/ installSkillFiles_write
  \/ installSkillFiles_writeEnd
  \/ AddInstallToAgents
  \/ \E a \in AgentTypes : InstallStep(a)
  \/ AddRecord
  \/ loadIndex(AddProc)
  \/ withFileLock_open(AddProc)
  \/ writeJsonAtomic_write(AddProc)
  \/ writeJsonAtomic_writeEnd(AddProc)
  \/ writeJsonAtomic_rename(AddProc)
  \/ withFileLock_unlock(AddProc)
  \/ AddDone
  \/ AddCrash
  \/ \E path \in {F1, <<"ref">>}, kind \in {"link", "dangling"} : EnvPlantLink(path, kind)

-----------------------------------------------------------------------------
\* The migration of the legacy list of installed skills (config.ts): earlier
\* versions of the CLI kept the list in config.json; loadConfig and loadIndex
\* move it to index.json. One process, no other command running; saveConfig and
\* saveIndex replace their file by a rename.

MaxLoads == 2

\* The lists an earlier version may have left in config.json.
LegacyLists ==
  {{}, {InstalledSkill("s1", {})},
   {InstalledSkill("s1", {"amp"}), InstalledSkill("s2", {})}}

NoConfig == [exists |-> FALSE, hasList |-> FALSE, list |-> {}, current |-> FALSE]

\* config.json as saveConfig writes it: the current schema, no installedSkills.
CurrentConfig == [exists |-> TRUE, hasList |-> FALSE, list |-> {}, current |-> TRUE]

NoMig == [pc |-> "idle", fn |-> "none", hasLegacy |-> FALSE, legacy |-> {},
          result |-> {}, start |-> [config |-> NoConfig, index |-> NoFile]]

\* A normalizeConfig that forgets the legacy list.
Mut_normalizeConfig(raw) ==
  [hasLegacy |-> FALSE, legacy |-> {}, changed |-> ~raw.exists \/ raw.hasList \/ ~raw.current]

\* normalizeConfig: the legacy list when raw.installedSkills is an array, and
\* whether the document differs from what saveConfig would write.
normalizeConfig(raw) ==
  [hasLegacy |-> raw.exists /\ raw.hasList,
   legacy |-> IF raw.exists /\ raw.hasList THEN raw.list ELSE {},
   changed |-> ~raw.exists \/ raw.hasList \/ ~raw.current]

\* normalizeIndex: the installedSkills of the document, DEFAULT_INDEX without one.
normalizeIndex(raw) == IF raw.ok THEN raw.doc ELSE DEFAULT_INDEX

\* saveIndex, as the file it leaves.
SavedIndex(doc) == [status |-> "complete", doc |-> doc]

\* An earlier version of the CLI has run: config.json holds its list, and
\* index.json, which that version does not know, is absent or was left by a
\* later version used in between.
EnvOldVersion(list, keepIndex) ==
  /\ mig.pc \in {"idle", "returned"}
  /\ \A p \in Procs : ppc[p] = "idle"
  /\ loads = 0
  /\ ~configFile.exists
  /\ configFile' = [exists |-> TRUE, hasList |-> TRUE, list |-> list, current |-> FALSE]
  /\ indexFile' = IF keepIndex THEN SavedIndex(DEFAULT_INDEX) ELSE NoFile
  /\ mig' = NoMig
  /\ UNCHANGED loads
  /\ UNCHANGED <<lockFile, tmpFile, ppc, pop, pending, afterSave, elapsed, lockTries,
                 foreignSave, crashes>>
  /\ UNCHANGED <<instVars, addVars, within, call, cmd, syncNew, removal>>

\* A command calls loadConfig or loadIndex.
mig_call(fn) ==
  /\ mig.pc \in {"idle", "returned"}
  /\ \A p \in Procs : ppc[p] = "idle"
  /\ loads < MaxLoads
  /\ loads' = loads + 1
  /\ mig' = [NoMig EXCEPT !.pc = fn, !.fn = fn,
                          !.start = [config |-> configFile, index |-> indexFile]]
  /\ UNCHANGED <<configFile, storeVars, instVars, addVars, within, call, cmd, syncNew, removal>>

\* loadIndex: index.json is read; with a document, normalizeIndex follows; without
\* one, migrateLegacyInstalledSkills reads config.json and, finding a list there,
\* saves the normalized config, which has no installedSkills field.
loadIndex_migrate ==
  /\ mig.pc = "loadIndex"
  /\ LET raw == readJsonFile(indexFile)
         n == normalizeConfig(configFile)
     IN IF ~raw.ok /\ configFile.exists /\ configFile.hasList
          THEN /\ configFile' = IF n.changed THEN CurrentConfig ELSE configFile
               /\ mig' = [mig EXCEPT !.pc = IF n.hasLegacy THEN "saveLegacy" ELSE "normalize",
                                     !.hasLegacy = n.hasLegacy, !.legacy = n.legacy]
          ELSE /\ mig' = [mig EXCEPT !.pc = "normalize"]
               /\ UNCHANGED configFile
  /\ UNCHANGED <<loads, storeVars, instVars, addVars, within, call, cmd, syncNew, removal>>

\* loadIndex: saveIndex of the legacy list, which is returned.
loadIndex_saveLegacy ==
  /\ mig.pc = "saveLegacy"
  /\ indexFile' = SavedIndex(mig.legacy)
  /\ mig' = [mig EXCEPT !.pc = "returned", !.result = mig.legacy]
  /\ UNCHANGED <<configFile, loads>>
  /\ UNCHANGED <<lockFile, tmpFile, ppc, pop, pending, afterSave, elapsed, lockTries,
                 foreignSave, crashes>>
  /\ UNCHANGED <<instVars, addVars, within, call, cmd, syncNew, removal>>

\* loadIndex without a legacy list: normalizeIndex, and saveIndex when index.json
\* is absent or not in the current form.
loadIndex_normalize ==
  /\ mig.pc = "normalize"
  /\ LET raw == readJsonFile(indexFile) IN
       /\ indexFile' = IF indexFile.status = "absent" \/ ~raw.ok
                         THEN SavedIndex(normalizeIndex(raw)) ELSE indexFile
       /\ mig' = [mig EXCEPT !.pc = "returned", !.result = normalizeIndex(raw)]
  /\ UNCHANGED <<configFile, loads>>
  /\ UNCHANGED <<lockFile, tmpFile, ppc, pop, pending, afterSave, elapsed, lockTries,
                 foreignSave, crashes>>
  /\ UNCHANGED <<instVars, addVars, within, call, cmd, syncNew, removal>>

\* loadConfig: config.json is read and normalized; with a legacy list and no
\* index.json, saveIndex of the list.
loadConfig_migrate ==
  /\ mig.pc = "loadConfig"
  /\ LET n == normalizeConfig(configFile) IN
       /\ indexFile' = IF n.hasLegacy /\ indexFile.status = "absent"
                         THEN SavedIndex(n.legacy) ELSE indexFile
       /\ mig' = [mig EXCEPT !.pc = "saveConfig", !.hasLegacy = n.hasLegacy,
                             !.legacy = n.legacy]
  /\ UNCHANGED <<configFile, loads>>
  /\ UNCHANGED <<lockFile, tmpFile, ppc, pop, pending, afterSave, elapsed, lockTries,
                 foreignSave, crashes>>
  /\ UNCHANGED <<instVars, addVars, within, call, cmd, syncNew, removal>>

\* loadConfig: saveConfig when config.json is absent or was changed by
\* normalizeConfig; the config is returned.
loadConfig_save ==
  /\ mig.pc = "saveConfig"
  /\ configFile' = IF normalizeConfig(configFile).changed THEN CurrentConfig
                                                           ELSE configFile
  /\ mig' = [mig EXCEPT !.pc = "returned"]
  /\ UNCHANGED <<loads, storeVars, instVars, addVars, within, call, cmd, syncNew, removal>>

\* The process is killed inside loadConfig or loadIndex.
mig_kill ==
  /\ mig.pc \notin {"idle", "returned"}
  /\ crashes < MaxCrashes
  /\ crashes' = crashes + 1
  /\ mig' = [mig EXCEPT !.pc = "idle"]
  /\ UNCHANGED <<configFile, loads>>
  /\ UNCHANGED <<lockFile, indexFile, tmpFile, ppc, pop, pending, afterSave, elapsed,
                 lockTries, foreignSave>>
  /\ UNCHANGED <<instVars, addVars, within, call, cmd, syncNew, removal>>

MigNext ==
  \/ \E list \in LegacyLists, keepIndex \in BOOLEAN : EnvOldVersion(list, keepIndex)
  \/ \E fn \in {"loadConfig", "loadIndex"} : mig_call(fn)
  \/ loadIndex_migrate
  \/ loadIndex_saveLegacy
  \/ loadIndex_normalize
  \/ loadConfig_migrate
  \/ loadConfig_save
  \/ mig_kill

-----------------------------------------------------------------------------
\* The within-base check on strings: assertPathWithinBase (commands/add.ts) and
\* isPathSafe (installer). A path is a sequence of characters; resolve and the
\* prefix test work on the characters, as path.resolve and String.startsWith do.
\* A behaviour is one call of one of the two functions on one candidate.

MaxPathLen == 5

sep == "/"
PathAlphabet == {sep, ".", "b", "-"}

\* The base directory of the calls and the candidate paths handed to them.
BaseDir == <<sep, "b">>
Candidates == UNION {[1..n -> PathAlphabet] : n \in 0..MaxPathLen}

RECURSIVE SplitPath(_, _, _)
\* The segments of a path between separators; empty segments are dropped.
SplitPath(chars, cur, acc) ==
  IF chars = <<>> THEN (IF cur = <<>> THEN acc ELSE Append(acc, cur))
  ELSE IF Head(chars) = sep
    THEN SplitPath(Tail(chars), <<>>, IF cur = <<>> THEN acc ELSE Append(acc, cur))
    ELSE SplitPath(Tail(chars), Append(cur, Head(chars)), acc)

RECURSIVE NormalizeSegments(_, _)
\* path.resolve on segments below the root: "." is dropped, ".." climbs, and
\* climbing stops at the root.
NormalizeSegments(acc, rest) ==
  IF rest = <<>> THEN acc
  ELSE IF Head(rest) = <<".">> THEN NormalizeSegments(acc, Tail(rest))
  ELSE IF Head(rest) = <<".", ".">>
    THEN NormalizeSegments(IF acc = <<>> THEN acc ELSE SubSeq(acc, 1, Len(acc) - 1),
                           Tail(rest))
    ELSE NormalizeSegments(Append(acc, Head(rest)), Tail(rest))

\* The segments of path.resolve(base, path): an absolute path replaces the base.
resolveSegments(base, path) ==
  IF path # <<>> /\ Head(path) = sep
    THEN NormalizeSegments(<<>>, SplitPath(path, <<>>, <<>>))
    ELSE NormalizeSegments(NormalizeSegments(<<>>, SplitPath(base, <<>>, <<>>)),
                           SplitPath(path, <<>>, <<>>))

RECURSIVE JoinSegments(_)
JoinSegments(segs) ==
  IF segs = <<>> THEN <<>> ELSE <<sep>> \o Head(segs) \o JoinSegments(Tail(segs))

\* path.resolve(base, path) as a string; the root is "/".
resolveStr(base, path) ==
  LET segs == resolveSegments(base, path) IN
    IF segs = <<>> THEN <<sep>> ELSE JoinSegments(segs)

\* String.prototype.startsWith.
startsWith(str, prefix) ==
  Len(str) >= Len(prefix) /\ SubSeq(str, 1, Len(prefix)) = prefix

\* A prefix test that leaves the separator out.
Mut_WithinBaseStr(fullPath, normalizedBase) ==
  startsWith(fullPath, normalizedBase) \/ fullPath = normalizedBase

\* fullPath.startsWith(normalizedBase + sep) || fullPath === normalizedBase.
WithinBaseStr(fullPath, normalizedBase) ==
  startsWith(fullPath, normalizedBase \o <<sep>>) \/ fullPath = normalizedBase

\* assertPathWithinBase does not throw.
assertPathWithinBaseStr(baseDir, filePath) ==
  WithinBaseStr(resolveStr(baseDir, filePath), resolveStr(<<sep>>, baseDir))

\* isPathSafe; the target is resolved against the working directory, here the root.
isPathSafeStr(basePath, targetPath) ==
  WithinBaseStr(resolveStr(<<sep>>, targetPath), resolveStr(<<sep>>, basePath))

NoWithin == [fn |-> "none", cand |-> <<>>, verdict |-> "none"]

\* installSkillFiles calls assertPathWithinBase(skillDir, file.path).
assertPathWithinBase_call(c) ==
  /\ within = NoWithin
  /\ within' = [fn |-> "assertPathWithinBase", cand |-> c,
                verdict |-> IF assertPathWithinBaseStr(BaseDir, c) THEN "ok" ELSE "threw"]
  /\ UNCHANGED <<storeVars, instVars, addVars, migVars, call, cmd, syncNew, removal>>

\* installToAgent calls isPathSafe(agentBase, agentSkillDir), with an absolute path.
isPathSafe_call(c) ==
  /\ within = NoWithin
  /\ c # <<>> /\ Head(c) = sep
  /\ within' = [fn |-> "isPathSafe", cand |-> c,
                verdict |-> IF isPathSafeStr(BaseDir, c) THEN "ok" ELSE "threw"]
  /\ UNCHANGED <<storeVars, instVars, addVars, migVars, call, cmd, syncNew, removal>>

WithinNext ==
  \/ \E c \in Candidates : assertPathWithinBase_call(c)
  \/ \E c \in Candidates : isPathSafe_call(c)

-----------------------------------------------------------------------------
\* Functions checked on their own: a behaviour is one call on one input.

NoPure == [fn |-> "none", in |-> <<>>, out |-> <<>>]

MaxNameLen == 4

\* Skill names as a registry or a manifest may give them.
NameAlphabet == {"/", "\\", ".", "-", "A", "b"}
HostileNames == UNION {[1..n -> NameAlphabet] : n \in 0..MaxNameLen}

\* installToAgent up to isPathSafe: the agent base, the sanitized name and the
\* install path for a skill name, an agent and a scope the agent supports.
installPath_call(name, a, isGlobal) ==
  /\ call = NoPure
  /\ ~(isGlobal /\ agents(a).globalSkillsDir = <<>>)
  /\ LET agentBase == AgentBase(a, isGlobal) IN
       call' = [fn |-> "installPath",
                in |-> [name |-> name, agent |-> a, global |-> isGlobal],
                out |-> [agentBase |-> agentBase,
                         chars |-> sanitizeChars(name),
                         sanitizedName |-> sanitizeName(name),
                         agentSkillDir |-> join(agentBase, sanitizeName(name)),
                         safe |-> isPathSafe(agentBase,
                                             join(agentBase, sanitizeName(name)))]]
  /\ UNCHANGED <<storeVars, instVars, addVars, migVars, within, cmd, syncNew, removal>>

\* ---- isSafePathSegment and the validator of registry responses ----

\* Characters that are not printable are written by their code point; each of
\* "U+0000" and "U+00E9" is one character of the string.
UpperChars ==
  {"A", "B", "C", "D", "E", "F", "G", "H", "I", "J", "K", "L", "M", "N", "O", "P", "Q",
   "R", "S", "T", "U", "V", "W", "X", "Y", "Z"}

\* /^[a-zA-Z0-9._-]+$/ : the characters of the class.
SegmentChars == SafeNameChars \cup UpperChars \cup {"-"}

\* value.includes('..')
IncludesDotDot(value) ==
  \E k \in 1..(Len(value) - 1) : value[k] = "." /\ value[k + 1] = "."

\* An isSafePathSegment without the test value.includes('..').
Mut_isSafePathSegment(value) ==
  /\ value # <<>>
  /\ value \notin {<<".">>, <<".", ".">>}
  /\ \A k \in 1..Len(value) : value[k] \in SegmentChars

isSafePathSegment(value) ==
  IF value = <<>> THEN FALSE
  ELSE IF value = <<".">> \/ value = <<".", ".">> THEN FALSE
  ELSE IF IncludesDotDot(value) THEN FALSE
  ELSE IF ~(\A k \in 1..Len(value) : value[k] \in SegmentChars) THEN FALSE
  ELSE TRUE

SegmentMax == 200

\* A JSON value of a response: t is "string", "null", "number" or "undefined"
\* (the field is missing); s is the string's characters.
Str(cs) == [t |-> "string", s |-> cs]
JsonNull == [t |-> "null", s |-> <<>>]
JsonNumber == [t |-> "number", s |-> <<>>]
Undefined == [t |-> "undefined", s |-> <<>>]

\* z.string().min(1).max(200).refine(isSafePathSegment)
safePathSegmentSchema(v) ==
  /\ v.t = "string"
  /\ Len(v.s) >= 1
  /\ Len(v.s) <= SegmentMax
  /\ isSafePathSegment(v.s)

\* An apiSkillSchema that lets any repo through.
Mut_apiSkillSchema(raw) ==
  /\ raw.slug.t = "string" /\ Len(raw.slug.s) >= 1
  /\ safePathSegmentSchema(raw.owner)
  /\ safePathSegmentSchema(raw.name)

\* apiSkillSchema: the required fields (the optional ones are left out of the
\* responses of the model).
apiSkillSchema(raw) ==
  /\ raw.slug.t = "string" /\ Len(raw.slug.s) >= 1
  /\ safePathSegmentSchema(raw.owner)
  /\ (raw.repo.t = "null" \/ safePathSegmentSchema(raw.repo))
  /\ safePathSegmentSchema(raw.name)

\* apiSkillDetailSchema = apiSkillSchema.extend({versions: z.array(...)}); the
\* versions of a response are an array of valid versions or are missing.
apiSkillDetailSchema(raw) == apiSkillSchema(raw) /\ raw.versions = "array"

MaxSegLen == 4

SegAlphabet == {".", "/", "\\", "U+0000", "U+00E9", "a", "A", "-"}
SegInputs == UNION {[1..n -> SegAlphabet] : n \in 0..MaxSegLen}

isSafePathSegment_call(value) ==
  /\ call = NoPure
  /\ call' = [fn |-> "isSafePathSegment", in |-> value, out |-> isSafePathSegment(value)]
  /\ UNCHANGED <<storeVars, instVars, addVars, migVars, within, cmd, syncNew, removal>>

\* The values a response gives for owner, repo and name.
FieldValues ==
  {Str(<<"a">>), Str(<<"a", ".", "b">>), Str(<<>>), Str(<<".">>), Str(<<".", ".">>),
   Str(<<".", ".", "/", "a">>), Str(<<"a", "/", "b">>), Str(<<"a", "\\", "b">>),
   Str(<<"a", "U+0000">>), Str(<<" ", "a">>), JsonNull, JsonNumber, Undefined}

RawResponses ==
  [slug : {Str(<<"a", "/", "b">>), Str(<<>>), Undefined},
   owner : FieldValues, repo : FieldValues, name : FieldValues,
   versions : {"array", "undefined"}]

\* validateSkillDetail(raw), followed by the getSkillDir of add for the skill
\* it returned.
validateSkillDetail_call(raw) ==
  /\ call = NoPure
  /\ call' = [fn |-> "validateSkillDetail", in |-> raw,
              out |-> IF ~apiSkillDetailSchema(raw)
                      THEN [accepted |-> FALSE, skillDir |-> <<>>]
                      ELSE [accepted |-> TRUE,
                            skillDir |-> getSkillDir(JoinChars(raw.owner.s),
                                                     JoinChars(raw.repo.s),
                                                     JoinChars(raw.name.s))]]
  /\ UNCHANGED <<storeVars, instVars, addVars, migVars, within, cmd, syncNew, removal>>

\* ---- parseSkillUrl, the resolver of source strings ----

\* A source string is a sequence of tokens: the separators and keywords the
\* parser looks for, host names, and words of [\w-]+. A path segment, an
\* identity field and an id are sequences of tokens as well.
WordToks ==
  {"acme", "Acme", "tools", "hello", "tree", "blob", "main", "skills", "py", "api",
   "v1", "download", "pub", "Pub", "clawhub", "desk", "skill", "docs", "example", "x"}

HostToks == {"github.com", "GitHub.com", "clawhub.ai", "example.com", "docs.example.com"}

\* String.prototype.toLowerCase, token by token.
toLowerCase(seg) ==
  [k \in 1..Len(seg) |->
     CASE seg[k] = "Acme" -> "acme" [] seg[k] = "Pub" -> "pub"
       [] seg[k] = "GitHub.com" -> "github.com" [] OTHER -> seg[k]]

\* The index of the first token of seq that is in S; Len(seq) + 1 if none is.
FirstIdx(seq, S) ==
  IF \E k \in 1..Len(seq) : seq[k] \in S
    THEN CHOOSE k \in 1..Len(seq) : seq[k] \in S /\ \A j \in 1..(k - 1) : seq[j] \notin S
    ELSE Len(seq) + 1

\* name.replace(/<suffix>$/, '')
StripSuffix(seg, suffix) ==
  IF seg # <<>> /\ seg[Len(seg)] = suffix THEN SubSeq(seg, 1, Len(seg) - 1) ELSE seg

stripGitSuffix(name) == StripSuffix(name, ".git")

RECURSIVE JoinSlash(_)
\* parts.join('/')
JoinSlash(parts) ==
  IF parts = <<>> THEN <<>>
  ELSE IF Len(parts) = 1 THEN parts[1]
  ELSE parts[1] \o <<"/">> \o JoinSlash(Tail(parts))

\* What a call returns: an identity, or ok = FALSE when it threw.
Thrown ==
  [ok |-> FALSE, host |-> <<>>, id |-> <<>>, owner |-> <<>>, repo |-> <<>>,
   skill |-> <<>>, path |-> <<>>, ref |-> <<>>]

Identity(host, idParts, owner, repo, skill, path, ref) ==
  [ok |-> TRUE, host |-> host, id |-> JoinSlash(idParts), owner |-> owner,
   repo |-> repo, skill |-> skill, path |-> path, ref |-> ref]

\* An absent field (undefined) is the empty sequence.
normalizeSkillPath(parts) ==
  IF parts = <<>> THEN <<>>
  ELSE LET lowered == [k \in 1..Len(parts) |-> toLowerCase(parts[k])]
           normalized == [lowered EXCEPT ![Len(parts)] = StripSuffix(@, ".md")]
       IN IF normalized[1] = <<"skills">> /\ Len(normalized) > 1
            THEN JoinSlash(Tail(normalized))
            ELSE JoinSlash(normalized)

parseGitHostUrl(host, pathParts) ==
  IF Len(pathParts) < 2 THEN Thrown
  ELSE LET owner == toLowerCase(pathParts[1])
           repo == toLowerCase(stripGitSuffix(pathParts[2]))
           isRef == Len(pathParts) > 2 /\ pathParts[3] \in {<<"tree">>, <<"blob">>}
           ref == IF isRef /\ Len(pathParts) >= 4 THEN pathParts[4] ELSE <<>>
           skillPath == IF Len(pathParts) <= 2 THEN <<>>
                        ELSE IF isRef THEN SubSeq(pathParts, 5, Len(pathParts))
                        ELSE SubSeq(pathParts, 3, Len(pathParts))
           path == JoinSlash([k \in 1..Len(skillPath) |->
                                StripSuffix(StripSuffix(skillPath[k], ".md"), ".MD")])
           skill == normalizeSkillPath(skillPath)
       IN Identity(host,
                   <<host, owner, repo>> \o (IF skill # <<>> THEN <<skill>> ELSE <<>>),
                   owner, repo, skill, path, ref)

\* parsed is the URL: its host, the parts of its pathname, and its slug and tag
\* parameters (absent: the empty sequence).
parseClawHubUrl(parsed) ==
  LET pathParts == parsed.pathParts IN
  IF Len(pathParts) = 2 /\ pathParts[1] # <<"api">>
    THEN LET publisher == toLowerCase(pathParts[1])
             slug == toLowerCase(pathParts[2])
         IN Identity(<<"clawhub.ai">>, <<<<"clawhub.ai">>, publisher, slug>>,
                     <<"clawhub.ai">>, publisher, slug, <<>>, <<>>)
    ELSE LET slug == toLowerCase(parsed.slug) IN
         IF slug = <<>> THEN Thrown
         ELSE Identity(<<"clawhub.ai">>, <<<<"clawhub.ai">>, <<"clawhub">>, slug>>,
                       <<"clawhub.ai">>, <<"clawhub">>, slug, <<>>, parsed.tag)

\* psl.parse(host).domain for the hosts of the model.
getRegistrableDomain(host) ==
  IF host = <<"docs.example.com">> THEN <<"example.com">> ELSE host

\* owner.split('.')[0] for the owners of the model.
HostBase(owner) == IF owner = <<"example.com">> THEN <<"example">> ELSE owner

parseHttpPath(owner, host, normalized) ==
  LET hostBase == HostBase(owner)
      n == Len(normalized)
      filename == normalized[n]
      parentPath == SubSeq(normalized, 1, n - 1)
      repo == IF n <= 1 THEN <<>>
              ELSE IF filename = <<"skill">>
                THEN (IF Len(parentPath) = 1 THEN parentPath[1]
                      ELSE JoinSlash(SubSeq(parentPath, 1, Len(parentPath) - 1)))
                ELSE JoinSlash(parentPath)
      skill == IF n = 0 THEN hostBase
               ELSE IF n = 1
                 THEN (IF normalized[1] = <<"skill">> THEN hostBase ELSE normalized[1])
               ELSE IF filename = <<"skill">> THEN parentPath[Len(parentPath)]
               ELSE filename
  IN Identity(host,
              <<host, owner>> \o (IF repo # <<>> THEN <<repo>> ELSE <<>>) \o <<skill>>,
              owner, repo, skill, <<>>, <<>>)

parseHttpUrl(host, pathParts) ==
  LET owner == getRegistrableDomain(host)
      lowered == [k \in 1..Len(pathParts) |-> toLowerCase(pathParts[k])]
      normalized == IF lowered = <<>> THEN lowered
                    ELSE [lowered EXCEPT ![Len(lowered)] = StripSuffix(@, ".md")]
      wellKnownIdx == FirstIdx(normalized, {<<".well-known">>})
  IN IF wellKnownIdx <= Len(normalized) /\ wellKnownIdx + 1 <= Len(normalized)
        /\ normalized[wellKnownIdx + 1] = <<"skills">>
       THEN parseHttpPath(owner, host,
                          SubSeq(normalized, wellKnownIdx + 2, Len(normalized)))
       ELSE parseHttpPath(owner, host, normalized)

\* convertSshToHttps: /^git@([^:]+):(.+)$/ ; <<>> when the URL does not match.
convertSshToHttps(sshUrl) ==
  LET colon == FirstIdx(sshUrl, {":"}) IN
  IF colon > 2 /\ colon < Len(sshUrl)
    THEN <<"https://">> \o SubSeq(sshUrl, 2, colon - 1) \o <<"/">>
           \o SubSeq(sshUrl, colon + 1, Len(sshUrl))
    ELSE <<>>

inferProtocol(url) ==
  IF Len(url) >= 2 /\ url[1] = "github.com" /\ url[2] = "/" THEN <<"https://">> \o url
  ELSE IF Len(url) >= 3 /\ url[1] \in WordToks /\ url[2] = "/" /\ url[3] \in WordToks
    THEN <<"https://", "github.com", "/">> \o url
  ELSE <<"https://">> \o url

\* new URL(normalized): the host up to the first "/" or "?", the pathname with
\* its "." and ".." segments resolved, and the slug and tag parameters. An empty
\* host or a port that is not a number throws.
NewURL(normalized) ==
  LET rest == Tail(normalized)
      hostEnd == FirstIdx(rest, {"/", "?slug=", "?tag="})
      host == SubSeq(rest, 1, hostEnd - 1)
      queryAt == FirstIdx(rest, {"?slug=", "?tag="})
      pathname == SubSeq(rest, hostEnd, queryAt - 1)
      query == SubSeq(rest, queryAt, Len(rest))
      slugAt == FirstIdx(query, {"?slug=", "&slug="})
      tagAt == FirstIdx(query, {"?tag=", "&tag="})
      Value(at) == IF at > Len(query) THEN <<>>
                   ELSE LET after == SubSeq(query, at + 1, Len(query))
                        IN SubSeq(after, 1, FirstIdx(after, {"&tag=", "&slug="}) - 1)
  IN IF host = <<>> \/ \E k \in 1..Len(host) : host[k] \notin (HostToks \cup WordToks \cup {"www."})
       THEN [ok |-> FALSE, host |-> <<>>, pathParts |-> <<>>, slug |-> <<>>, tag |-> <<>>]
       ELSE [ok |-> TRUE, host |-> toLowerCase(host),
             pathParts |-> NormalizeSegments(<<>>, SplitPath(pathname, <<>>, <<>>)),
             slug |-> Value(slugAt), tag |-> Value(tagAt)]

\* host.toLowerCase().replace(/^www\./, '')
normalizeHost(host) ==
  LET lowered == toLowerCase(host)
  IN IF lowered # <<>> /\ lowered[1] = "www." THEN Tail(lowered) ELSE lowered

\* url.trim()
RECURSIVE Trim(_)
Trim(url) ==
  IF url # <<>> /\ Head(url) = " " THEN Trim(Tail(url))
  ELSE IF url # <<>> /\ url[Len(url)] = " " THEN Trim(SubSeq(url, 1, Len(url) - 1))
  ELSE url

parseSkillUrl(url) ==
  LET trimmed == Trim(url)
      isSsh == trimmed # <<>> /\ trimmed[1] = "git@"
      converted == IF isSsh THEN convertSshToHttps(trimmed) ELSE trimmed
      normalized == IF converted # <<>> /\ converted[1] \in {"https://", "http://"}
                    THEN converted ELSE inferProtocol(converted)
      parsed == NewURL(normalized)
      host == normalizeHost(parsed.host)
  IN IF isSsh /\ converted = <<>> THEN Thrown
     ELSE IF ~parsed.ok THEN Thrown
     ELSE IF host = <<"github.com">> THEN parseGitHostUrl(host, parsed.pathParts)
     ELSE IF host = <<"clawhub.ai">> THEN parseClawHubUrl(parsed)
     ELSE parseHttpUrl(host, parsed.pathParts)

\* The skills the sources of the model denote: a skill of a repository of the
\* git host, at a path below the repository's skills directory (the empty path
\* is the repository itself), or a skill of a publisher of the registry.
GitSkills ==
  [kind : {"git"}, owner : {"acme"}, repo : {"tools"},
   path : {<<>>, <<"hello">>, <<"tree">>, <<"py", "hello">>}]
RegistrySkills ==
  [kind : {"registry"}, owner : {"clawhub.ai"}, repo : {"pub", "clawhub"},
   path : {<<"desk">>}]
DenotedSkills == GitSkills \cup RegistrySkills

RECURSIVE Slashed(_)
\* "/" before every segment of the path.
Slashed(path) == IF path = <<>> THEN <<>> ELSE <<"/", Head(path)>> \o Slashed(Tail(path))

Forms == {"tree", "mixedCase", "noScheme", "ssh", "bare", "bareSkills", "site", "legacy"}

\* The source string that denotes the skill in the given convention; <<>> when
\* the convention has no source for the skill.
SourceOf(sk, form) ==
  LET below == IF sk.path = <<>> THEN <<>>
               ELSE <<"/", "tree", "/", "main", "/", "skills">> \o Slashed(sk.path)
  IN CASE sk.kind = "git" /\ form = "tree" ->
            <<"https://", "github.com", "/", sk.owner, "/", sk.repo>> \o below
       [] sk.kind = "git" /\ form = "mixedCase" ->
            <<"https://", "www.", "GitHub.com", "/", "Acme", "/", sk.repo>> \o below
       [] sk.kind = "git" /\ form = "noScheme" ->
            <<"github.com", "/", sk.owner, "/", sk.repo>> \o below
       [] sk.kind = "git" /\ form = "ssh" /\ sk.path = <<>> ->
            <<"git@", "github.com", ":", sk.owner, "/", sk.repo, ".git">>
       [] sk.kind = "git" /\ form = "bare" ->
            <<sk.owner, "/", sk.repo>> \o Slashed(sk.path)
       [] sk.kind = "git" /\ form = "bareSkills" /\ sk.path # <<>> ->
            <<sk.owner, "/", sk.repo, "/", "skills">> \o Slashed(sk.path)
       [] sk.kind = "registry" /\ form = "site" ->
            <<"https://", "clawhub.ai", "/", sk.repo>> \o Slashed(sk.path)
       [] sk.kind = "registry" /\ form = "legacy" ->
            <<"https://", "clawhub.ai", "/", "api", "/", "v1", "/", "download", "?slug=">>
              \o sk.path \o <<"&tag=", "main">>
       [] OTHER -> <<>>

\* Source strings that denote no skill of the model, or none at all.
OtherSources ==
  {<<>>, <<"git@", "github.com">>, <<"https://", "github.com", "/", "acme">>,
   <<" ", "acme", "/", "tools", "/", "hello", ".md", " ">>,
   <<"https://", "github.com", "/", "acme", "/", "tools", "/", ".", ".", "/", "x", "/", "hello">>,
   <<"https://", "github.com", "/", "acme", "/", ".git">>,
   <<"https://", "clawhub.ai", "/", "api", "/", "v1", "/", "download">>,
   <<"https://", "clawhub.ai", "/", "api", "/", "v1", "/", "download", "?slug=", ".", ".", "/", "x">>,
   <<"https://", "docs.example.com", "/", "docs", "/", "skill", ".md">>,
   <<"https://", "example.com", "/", "docs", "/", "x", "/", "hello", ".md">>,
   <<"https://", "example.com", "/", ".well-known", "/", "skills", "/", "tools", "/", "x", "/", "skill", ".md">>,
   <<"example.com">>, <<"https://", "example.com", "/", "a b", ".md">>}

Sources ==
  OtherSources \cup ({SourceOf(sk, form) : sk \in DenotedSkills, form \in Forms} \ {<<>>})

parseSkillUrl_call(url) ==
  /\ call = NoPure
  /\ call' = [fn |-> "parseSkillUrl", in |-> url, out |-> parseSkillUrl(url)]
  /\ UNCHANGED <<storeVars, instVars, addVars, migVars, within, cmd, syncNew, removal>>

\* One skill resolved from its source strings in two conventions.
parseSkillUrl_two(sk, form1, form2) ==
  /\ call = NoPure
  /\ SourceOf(sk, form1) # <<>> /\ SourceOf(sk, form2) # <<>>
  /\ call' = [fn |-> "parseSkillUrl_two",
              in |-> [skill |-> sk, forms |-> <<form1, form2>>,
                      urls |-> <<SourceOf(sk, form1), SourceOf(sk, form2)>>],
              out |-> <<parseSkillUrl(SourceOf(sk, form1)),
                        parseSkillUrl(SourceOf(sk, form2))>>]
  /\ UNCHANGED <<storeVars, instVars, addVars, migVars, within, cmd, syncNew, removal>>

\* new URL(url).protocol: the scheme of the string, which is malformed without one.
Schemes == {"https:", "http:", "file:", "ftp:"}

protocol(url) == IF url # <<>> /\ url[1] \in Schemes THEN url[1] ELSE "malformed"

\* assertHttpsUrl: what it raises, or "ok".
assertHttpsUrl(url) ==
  IF protocol(url) = "malformed" THEN "URL is malformed."
  ELSE IF protocol(url) # "https:" THEN "URL must use https: scheme"
  ELSE "ok"

\* loadConfig().registryUrl: the default, or any string that VETT_REGISTRY_URL or
\* config.json gives.
RegistryUrls ==
  {<<"https:", "//", "vett.sh">>, <<"http:", "//", "localhost:3000">>,
   <<"http:", "//", "registry.example">>, <<"ftp:", "//", "registry.example">>,
   <<"file:", "//", "/srv/registry">>, <<"registry.example">>}

\* downloadArtifact: the fetch of the download endpoint under the registry URL,
\* which fetch makes over http and https only, then the status and the hash.
downloadArtifact_call(baseUrl, status, hashMatches) ==
  /\ call = NoPure
  /\ LET url == baseUrl \o <<"/api/v1/download/", "acme/tools/hello", "@", "1.0.0">>
     IN call' = [fn |-> "downloadArtifact",
                 in |-> [url |-> url, status |-> status, hashMatches |-> hashMatches],
                 out |-> IF protocol(url) \notin {"https:", "http:"} THEN "TypeError"
                         ELSE IF status \notin 200..299 THEN "Failed to download artifact"
                         ELSE IF ~hashMatches THEN "Hash mismatch!"
                         ELSE "content"]
  /\ UNCHANGED <<storeVars, instVars, addVars, migVars, within, cmd, syncNew, removal>>

\* The size limits of a manifest (part_018): 256 KiB a file, 1 MiB in all.
DEFAULT_MAX_SKILL_FILE_BYTES == 256 * 1024
DEFAULT_MAX_SKILL_TOTAL_BYTES == 1024 * 1024
DEFAULT_SKILL_SIZE_LIMITS == [maxFileBytes |-> DEFAULT_MAX_SKILL_FILE_BYTES,
                              maxTotalBytes |-> DEFAULT_MAX_SKILL_TOTAL_BYTES]

\* Number.MAX_SAFE_INTEGER is 2^53 - 1; the largest integer of the checker stands
\* for it, above every size and every total of the model.
MAX_SAFE_INTEGER == 2147483647

\* The limits a schema is made with: the default ones, those of add, and those of
\* the schema's test (part_017).
SizeLimits ==
  {DEFAULT_SKILL_SIZE_LIMITS,
   [maxFileBytes |-> MAX_SAFE_INTEGER, maxTotalBytes |-> MAX_SAFE_INTEGER],
   [maxFileBytes |-> 100, maxTotalBytes |-> 20]}

\* The manifests whose sizes are looked at: the byte length of the content of each
\* file, the paths being safe and the structure valid.
MaxManifestFiles == 5
ContentSizes == {1, 11, DEFAULT_MAX_SKILL_FILE_BYTES, DEFAULT_MAX_SKILL_FILE_BYTES + 1}
SizedManifests == UNION {[1..n -> ContentSizes] : n \in 1..MaxManifestFiles}

RECURSIVE totalBytes(_)
totalBytes(sizes) == IF sizes = <<>> THEN 0 ELSE Head(sizes) + totalBytes(Tail(sizes))

\* A schema that does not add the sizes up.
Mut_createSkillManifestSchema(limits, sizes) ==
  /\ Len(sizes) >= 1
  /\ \A i \in 1..Len(sizes) : sizes[i] <= limits.maxFileBytes

\* createSkillManifestSchema(limits).safeParse(manifest).success, as far as the
\* sizes decide it: at least one file, no file above maxFileBytes, the sum not
\* above maxTotalBytes.
createSkillManifestSchema(limits, sizes) ==
  /\ Len(sizes) >= 1
  /\ \A i \in 1..Len(sizes) : sizes[i] <= limits.maxFileBytes
  /\ totalBytes(sizes) <= limits.maxTotalBytes

\* add from the parse of the downloaded manifest to installSkillFiles, for a schema
\* made with the given limits (add makes it with Number.MAX_SAFE_INTEGER for both):
\* a manifest the schema refuses ends add, one it accepts has its files written
\* (the signature being valid).
add_parseManifest_call(limits, sizes) ==
  /\ call = NoPure
  /\ LET success == createSkillManifestSchema(limits, sizes)
     IN call' = [fn |-> "add_parseManifest", in |-> [limits |-> limits, sizes |-> sizes],
                 out |-> [rejected |-> ~success,
                          written |-> IF success THEN 1..Len(sizes) ELSE {}]]
  /\ UNCHANGED <<storeVars, instVars, addVars, migVars, within, cmd, syncNew, removal>>

\* A behaviour makes one call: nothing follows it.
NamesNext ==
  \/ call = NoPure /\ \E name \in HostileNames, a \in {"claude-code", "replit"},
                           isGlobal \in BOOLEAN : installPath_call(name, a, isGlobal)
  \/ call = NoPure /\ \E value \in SegInputs : isSafePathSegment_call(value)
  \/ call = NoPure /\ \E raw \in RawResponses : validateSkillDetail_call(raw)
  \/ call = NoPure /\ \E url \in Sources : parseSkillUrl_call(url)
  \/ call = NoPure /\ \E sk \in DenotedSkills, form1 \in Forms, form2 \in Forms :
                         parseSkillUrl_two(sk, form1, form2)
  \/ call = NoPure /\ \E baseUrl \in RegistryUrls, status \in {200, 404, 426},
                           hashMatches \in BOOLEAN :
                         downloadArtifact_call(baseUrl, status, hashMatches)
  \/ call = NoPure /\ \E limits \in SizeLimits, sizes \in SizedManifests :
                         add_parseManifest_call(limits, sizes)

-----------------------------------------------------------------------------
\* The registry requests of add and update (api.ts, commands/add.ts,
\* commands/update.ts) and the wrapper of the commands (index.ts).

\* waitForJob: the default timeout, and the polling intervals.
DefaultTimeoutMs == 180000
FastIntervalMs == 1000
SlowIntervalMs == 3000
SlowAfterMs == 30000

\* The time a request takes is a multiple of the fast interval, up to MaxLatency
\* of them.
MaxLatency == 2

JobIds == {"job-abc-123"}

NoCmd ==
  [pc |-> "idle", command |-> "none", jobId |-> "none", elapsed |-> 0,
   lastPoll |-> "none", wait |-> "none", message |-> "none", thrown |-> "none",
   minVersion |-> "none", upgradeAt |-> "none", outcome |-> "none"]

\* What a 426 answer says of the minimum version: the body's minVersion, else
\* the X-Vett-Min-Cli-Version header, else null.
MinVersions == {"0.2.1", "null"}

\* The answers of the registry to a request: a status other than 200, or what
\* the body of a 200 says.
ErrorReplies == {"426", "429", "500"}

\* process.exit(1)
Exit1(c) == [c EXCEPT !.pc = "done", !.outcome = "exit 1"]

\* An error leaves add: updateSkill (update.ts:78-82) rethrows an
\* UpgradeRequiredError and logs any other error; the add command hands it to
\* the wrapper.
LeavesAdd(c, err, min) ==
  IF c.command = "update" /\ err # "UpgradeRequiredError"
    THEN [c EXCEPT !.pc = "done", !.outcome = "update logged the failure"]
    ELSE [c EXCEPT !.pc = "wrapper", !.thrown = err, !.minVersion = min]

\* fetchJson and fetchJsonOrNull: the error thrown for a status that is not ok.
fetchJson_error(status) ==
  CASE status = "426" -> "UpgradeRequiredError"
    [] status = "429" -> "RateLimitError"
    [] OTHER -> "Error"

\* The catch of add around resolve, poll and detail (add.ts:299-313).
add_catch(c, err, min) ==
  IF err = "RateLimitError" THEN Exit1(c) ELSE LeavesAdd(c, err, min)

Noted426(c, status, at) == IF status = "426" THEN [c EXCEPT !.upgradeAt = at] ELSE c

\* The command starts: add calls resolveSkill, update calls updateSkill for an
\* installed skill.
StartCommand(command) ==
  /\ cmd.pc = "idle"
  /\ cmd' = [cmd EXCEPT !.command = command,
                        !.pc = IF command = "add" THEN "resolve" ELSE "updateSkill"]
  /\ UNCHANGED <<storeVars, instVars, addVars, migVars, within, call, syncNew, removal>>

\* updateSkill: getSkillDetail(slug), then add(slug) when a newer version exists.
updateSkill(reply, min) ==
  /\ cmd.pc = "updateSkill"
  /\ LET c == Noted426(cmd, reply, "update detail") IN
     cmd' = CASE reply = "newer" -> [c EXCEPT !.pc = "resolve"]
              [] reply \in {"null", "same"} ->
                   [c EXCEPT !.pc = "done", !.outcome = "nothing to update"]
              [] OTHER -> LeavesAdd(c, fetchJson_error(reply), min)
  /\ UNCHANGED <<storeVars, instVars, addVars, migVars, within, call, syncNew, removal>>

\* add, step 1: resolveSkill(input).
add_resolveSkill(reply, min, jobId) ==
  /\ cmd.pc = "resolve"
  /\ LET c == Noted426(cmd, reply, "resolve") IN
     cmd' = CASE reply = "not_found" -> Exit1(c)
              [] reply = "ready" -> [c EXCEPT !.pc = "download"]
              [] reply = "processing" ->
                   [c EXCEPT !.pc = "waitForJob", !.jobId = jobId, !.elapsed = 0]
              [] OTHER -> add_catch(c, fetchJson_error(reply), min)
  /\ UNCHANGED <<storeVars, instVars, addVars, migVars, within, call, syncNew, removal>>

\* waitForJob, the head of its loop: while (Date.now() - start < timeout).
\* After the loop it throws the error that names the job, which add logs
\* before it exits (add.ts:252-261).
waitForJob_loop ==
  /\ cmd.pc = "waitForJob"
  /\ cmd' = IF cmd.elapsed < DefaultTimeoutMs
              THEN [cmd EXCEPT !.pc = "getJobStatus"]
              ELSE Exit1([cmd EXCEPT !.wait = "timeout error", !.message = cmd.jobId])
  /\ UNCHANGED <<storeVars, instVars, addVars, migVars, within, call, syncNew, removal>>

\* waitForJob: the answer to getJobStatus(jobId), after some time.
waitForJob_getJobStatus(reply, min, latency) ==
  /\ cmd.pc = "getJobStatus"
  /\ LET c == Noted426([cmd EXCEPT !.elapsed = @ + latency * FastIntervalMs,
                                   !.lastPoll = reply], reply, "job poll") IN
     cmd' = CASE reply = "completed" -> [c EXCEPT !.pc = "detail", !.wait = "job"]
              [] reply = "failed" -> Exit1([c EXCEPT !.wait = "job"])
              [] reply \in {"pending", "processing"} -> [c EXCEPT !.pc = "sleep"]
              [] reply = "426" ->
                   add_catch([c EXCEPT !.wait = "poll error"], "UpgradeRequiredError", min)
              [] OTHER -> Exit1([c EXCEPT !.wait = "poll error"])
  /\ UNCHANGED <<storeVars, instVars, addVars, migVars, within, call, syncNew, removal>>

\* A pause that takes no time.
Mut_waitForJob_sleep ==
  /\ cmd.pc = "sleep"
  /\ cmd' = [cmd EXCEPT !.pc = "waitForJob"]
  /\ UNCHANGED <<storeVars, instVars, addVars, migVars, within, call, syncNew, removal>>

\* waitForJob: the pause before the next poll.
waitForJob_sleep ==
  /\ cmd.pc = "sleep"
  /\ cmd' = [cmd EXCEPT !.pc = "waitForJob",
                        !.elapsed = @ + (IF cmd.elapsed < SlowAfterMs THEN FastIntervalMs
                                         ELSE SlowIntervalMs)]
  /\ UNCHANGED <<storeVars, instVars, addVars, migVars, within, call, syncNew, removal>>

\* add after the job: getSkillDetail(slug).
add_getSkillDetail(reply, min) ==
  /\ cmd.pc = "detail"
  /\ LET c == Noted426(cmd, reply, "skill detail") IN
     cmd' = CASE reply = "detail" -> [c EXCEPT !.pc = "download"]
              [] reply \in {"null", "no versions"} -> Exit1(c)
              [] OTHER -> add_catch(c, fetchJson_error(reply), min)
  /\ UNCHANGED <<storeVars, instVars, addVars, migVars, within, call, syncNew, removal>>

\* downloadArtifact throws an Error for every status that is not ok and for a
\* hash that differs; add (add.ts:384-401) rethrows an UpgradeRequiredError and
\* logs any other error before it exits.
add_downloadArtifact(reply, min) ==
  /\ cmd.pc = "download"
  /\ LET c == Noted426(cmd, reply, "download")
         err == IF reply = "artifact" THEN "none" ELSE "Error"
     IN cmd' = IF err = "none" THEN [c EXCEPT !.pc = "done", !.outcome = "downloaded"]
               ELSE IF err = "UpgradeRequiredError" THEN LeavesAdd(c, err, min)
               ELSE Exit1(c)
  /\ UNCHANGED <<storeVars, instVars, addVars, migVars, within, call, syncNew, removal>>

\* withTelemetry: the catch around the command.
withTelemetry_catch ==
  /\ cmd.pc = "wrapper"
  /\ cmd' = IF cmd.thrown = "UpgradeRequiredError"
              THEN [cmd EXCEPT !.pc = "done",
                               !.outcome = "upgrade required",
                               !.message = IF cmd.minVersion = "null" THEN "unknown"
                                           ELSE cmd.minVersion]
              ELSE [cmd EXCEPT !.pc = "done", !.outcome = "rethrown"]
  /\ UNCHANGED <<storeVars, instVars, addVars, migVars, within, call, syncNew, removal>>

RequestsNext ==
  \/ \E command \in {"add", "update"} : StartCommand(command)
  \/ \E reply \in {"newer", "same", "null"} \cup ErrorReplies, min \in MinVersions :
       updateSkill(reply, min)
  \/ \E reply \in {"ready", "processing", "not_found"} \cup ErrorReplies,
        min \in MinVersions, jobId \in JobIds : add_resolveSkill(reply, min, jobId)
  \/ waitForJob_loop
  \/ \E reply \in {"pending", "processing", "completed", "failed"} \cup ErrorReplies,
        min \in MinVersions, latency \in 0..MaxLatency :
       waitForJob_getJobStatus(reply, min, latency)
  \/ waitForJob_sleep
  \/ \E reply \in {"detail", "null", "no versions"} \cup ErrorReplies,
        min \in MinVersions : add_getSkillDetail(reply, min)
  \/ \E reply \in {"artifact", "hash mismatch", "404"} \cup ErrorReplies,
        min \in MinVersions : add_downloadArtifact(reply, min)
  \/ withTelemetry_catch

\* Every request is answered or fails, and a step of the command that can be
\* taken is taken.
RequestsFair ==
  /\ WF_vars(waitForJob_loop)
  /\ WF_vars(waitForJob_sleep)
  /\ WF_vars(\E reply \in {"pending", "processing", "completed", "failed"} \cup ErrorReplies,
                min \in MinVersions, latency \in 0..MaxLatency :
               waitForJob_getJobStatus(reply, min, latency))

Init ==
  /\ lockFile = NoLock
  /\ indexFile = NoFile
  /\ tmpFile = [p \in Procs |-> "none"]
  /\ ppc = [p \in Procs |-> "idle"]
  /\ pop = [p \in Procs |-> NoOp]
  /\ pending = [p \in Procs |-> {}]
  /\ afterSave = [p \in Procs |-> "return"]
  /\ elapsed = [p \in Procs |-> 0]
  /\ lockTries = [p \in Procs |-> 0]
  /\ foreignSave = [p \in Procs |-> FALSE]
  /\ crashes = 0
  /\ entries = [l \in LinkPaths |-> NoEntry]
  /\ canon = [c \in CanonPaths |-> TRUE]
  /\ symlinkOk = "unknown"
  /\ calls = [a \in AgentTypes |-> NoCall]
  /\ batch = NoBatch
  /\ batches = 0
  /\ envSteps = 0
  /\ scan = NoScan
  /\ fix = NoFix
  /\ add = NoAdd
  /\ storeFs = InstalledStore
  /\ escaped = FALSE
  /\ snap = Snapshot
  /\ adds = 0
  /\ configFile = NoConfig
  /\ mig = NoMig
  /\ loads = 0
  /\ within = NoWithin
  /\ call = NoPure
  /\ cmd = NoCmd
  /\ syncNew = NoSyncNew
  /\ removal = NoRemoval

SpecStore == Init /\ [][StoreNext]_vars

SpecInstall == Init /\ [][InstNext]_vars

SpecAdd == Init /\ [][AddNext]_vars

SpecMigrate == Init /\ [][MigNext]_vars

SpecWithin == Init /\ [][WithinNext]_vars

SpecNames == Init /\ [][NamesNext]_vars

SpecRequests == Init /\ [][RequestsNext]_vars

SpecRequestsFair == SpecRequests /\ RequestsFair

SpecSync == Init /\ [][SyncNext]_vars

SpecRemove == Init /\ [][RemoveNext]_vars
SpecShared == Init /\ [][SharedNext]_vars

-----------------------------------------------------------------------------
\* Properties of the add command.

\* C1: in every add, the signature verification and the path-safety checks of
\* every manifest file (within the base, no symbolic link among the components)
\* are complete before the first file is written.
C1_ChecksBeforeFirstWrite ==
  add.written # {} =>
    /\ add.verified
    /\ add.checked = FilesOf(add.in.files)

\* An add has ended on a failed path-safety check after it had written a file.
C1_ThrewAfterWrite ==
  add.pc = "exited" /\ add.outcome = "threw" /\ add.written # {}

\* C2: an add of a version that has no signature bundle fails (it is refused, or
\* killed before it is), and writes no file to the canonical store or to an
\* agent directory.
C2_UnsignedWritesNothing ==
  (add.pc # "idle" /\ add.in.sigstoreBundle = "none") =>
    /\ add.pc \in {"parse", "verify", "exited"}
    /\ add.pc = "exited" =>
         add.outcome \in {"blocked", "invalid manifest", "signature", "killed"}
    /\ add.written = {}
    /\ Snapshot = snap

\* An add of an unsigned version, with an acceptable risk and a valid
\* manifest, has been ended by verifyManifestOrThrow.
C2_UnsignedRefused ==
  /\ add.pc = "exited" /\ add.outcome = "signature"
  /\ add.in.sigstoreBundle = "none"
  /\ add.in.agents # {}

\* C29: an add whose selected version has the risk critical ends at once with
\* the failure "blocked": it does not go on to the download, and it leaves the
\* canonical store, the agent directories and the index as they were.
C29_CriticalRiskBlocked ==
  [][(add' # add /\ add'.in.risk = "critical") =>
       /\ add'.pc = "exited" /\ add'.outcome = "blocked"
       /\ add'.written = {} /\ add'.handed = NoBytes
       /\ UNCHANGED <<storeFs, escaped, entries, canon, indexFile, tmpFile, lockFile>>]_vars

\* An add of a signed version of critical risk has been refused.
C29_CriticalRefused ==
  /\ add.pc = "exited" /\ add.outcome = "blocked"
  /\ add.in.risk = "critical"
  /\ add.in.sigstoreBundle # "none"
  /\ add.written = {} /\ Snapshot = snap

\* C9: when add calls installToAgents, every file of the manifest has been
\* written below the canonical directory.
C9_FilesBeforeAgents ==
  add.pc = "installing" =>
    /\ canon[skillDir]
    /\ add.written = FilesOf(add.in.files)
    /\ \A f \in FilesOf(add.in.files) : NodeAt(storeFs, f) \in {"file", "dangling"}

\* The installToAgent calls of an add of a manifest of two files are running.
C9_AgentsAfterTwoFiles ==
  /\ add.pc = "installing" /\ Running
  /\ Cardinality(add.written) = 2

\* C33 as stated: after add completes, the agent set recorded for the skill in
\* the index contains only agents for which installToAgent returned success.
C33_RecordedAgentsInstalled ==
  (add.pc = "exited" /\ add.outcome = "success" /\ indexFile.status = "complete") =>
    \A r \in indexFile.doc :
      r.name = "s1" /\ batch.state = "joined" /\ batch.agents = add.in.agents =>
        \A a \in r.agents : calls[a].pc = "done" /\ calls[a].success

\* An add has completed and the record of the skill in index.json lists an agent
\* for which installToAgent returned a failure.
C33_FailedAgentRecorded ==
  /\ add.pc = "exited" /\ add.outcome = "success" /\ indexFile.status = "complete"
  /\ batch.state = "joined" /\ batch.agents = add.in.agents
  /\ \E r \in indexFile.doc :
       /\ r.name = "s1"
       /\ \E a \in r.agents : calls[a].pc = "done" /\ ~calls[a].success

\* C39 as stated: after a successful install or reinstall the canonical directory
\* holds exactly the files of the verified manifest, and no file of a version
\* installed before.
C39_ExactlyManifestFiles ==
  (add.pc = "exited" /\ add.outcome = "success") =>
    \A f \in StorePaths :
      NodeAt(storeFs, f) \in {"file", "partial"} <=> f \in FilesOf(add.in.files)

\* add has succeeded with a manifest of one file, and a file that the version
\* installed before had is still in the canonical directory.
C39_OldFileLeft ==
  /\ add.pc = "exited" /\ add.outcome = "success"
  /\ add.verified /\ add.in.files = <<F1>>
  /\ add.written = {F1}
  /\ NodeAt(storeFs, F2) = "file"

\* C14 as stated: when add is interrupted or killed at any point, every file in
\* the canonical store is a complete file, of the previous installation or of
\* the new one; no partially written file is left on disk.
C14_NoPartialFileAfterKill ==
  (add.pc = "exited" /\ add.outcome = "killed") =>
    \A f \in StorePaths : NodeAt(storeFs, f) # "partial"

\* An add has been killed and a file that was complete when it started is left
\* truncated.
C14_KilledInsideWrite ==
  /\ add.pc = "exited" /\ add.outcome = "killed"
  /\ \E f \in StorePaths : snap.storeFs[f] = "file" /\ storeFs[f] = "partial"

HasSymlinkComponent(fs, relativePath) ==
  \E k \in 1..Len(relativePath) :
    NodeAt(fs, SubSeq(relativePath, 1, k)) \in {"link", "dangling"}

\* C19 as stated: assertNoSymlinkPathComponents raises whenever a component of the
\* relative path that is on disk under the base directory is a symbolic link,
\* whatever the link points to.
C19_SymlinkComponentRaises ==
  \A f \in {F1, F2} :
    HasSymlinkComponent(storeFs, f) => ~assertNoSymlinkPathComponents(storeFs, skillDir, f)

\* The check has let pass a file whose path is a symbolic link to nothing, and
\* add has written the file through the link, outside the skill directory.
C19_WroteThroughLink ==
  /\ escaped
  /\ \E f \in add.checked \cap add.written : HasSymlinkComponent(storeFs, f)

-----------------------------------------------------------------------------
\* Properties of the functions checked on their own.

\* C21: for every skill name, agent and scope, the sanitized name holds no path
\* separator and is neither "." nor "..", and the install path, the agent base
\* joined with the sanitized name, is a direct child of the agent base and passes
\* isPathSafe.
C21_InstallPathInsideBase ==
  call.fn = "installPath" =>
    /\ \A k \in 1..Len(call.out.chars) : call.out.chars[k] \notin {"/", "\\"}
    /\ call.out.chars \notin {<<".">>, <<".", ".">>}
    /\ call.out.sanitizedName # ""
    /\ call.out.agentSkillDir = call.out.agentBase \o <<call.out.sanitizedName>>
    /\ call.out.safe

\* The install path has been computed for the name "../b".
C21_TraversalNameSanitized ==
  /\ call.fn = "installPath"
  /\ call.in.name = <<".", ".", "/", "b">>
  /\ call.out.sanitizedName = "b"

\* The characters of [a-z0-9._-].
LowerSegmentChars == SafeNameChars \cup {"-"}

MatchesLowerClass(value) ==
  value # <<>> /\ \A k \in 1..Len(value) : value[k] \in LowerSegmentChars

\* The string holds "..", a path separator, a null byte or a non-ASCII character.
HoldsForbidden(value) ==
  \/ \E k \in 1..(Len(value) - 1) : SubSeq(value, k, k + 1) = <<".", ".">>
  \/ \E k \in 1..Len(value) : value[k] \in {"/", "\\", "U+0000", "U+00E9"}

\* C26 (as amended): isSafePathSegment returns false for every string that holds
\* "..", a path separator, a null byte or a non-ASCII character, and returns true
\* for every string matching [a-z0-9._-]+ within the length bound that is not "."
\* and holds no "..".
C26_SafeSegmentTotal ==
  call.fn = "isSafePathSegment" =>
    /\ HoldsForbidden(call.in) => call.out = FALSE
    /\ ( /\ MatchesLowerClass(call.in) /\ Len(call.in) <= SegmentMax
         /\ call.in # <<".">> /\ ~HoldsForbidden(call.in) ) => call.out = TRUE

\* C26 (as stated): false for every string holding "..", a separator, a null
\* byte or a non-ASCII character, true for every string matching [a-z0-9._-]+
\* within the length bound.
C26_TrueForEveryMatch ==
  call.fn = "isSafePathSegment" =>
    /\ HoldsForbidden(call.in) => call.out = FALSE
    /\ (MatchesLowerClass(call.in) /\ Len(call.in) <= SegmentMax) => call.out = TRUE

\* The predicate was asked about "." and answered false.
C26_SingleDotRejected ==
  call.fn = "isSafePathSegment" /\ call.in = <<".">> /\ call.out = FALSE

\* C22: validateSkillDetail accepts a response only if owner, repo (when not
\* null) and name are strings passing isSafePathSegment; the canonical store
\* path of an accepted response is SKILLS_DIR followed by exactly these values.
C22_AcceptedFieldsAreSafe ==
  (call.fn = "validateSkillDetail" /\ call.out.accepted) =>
    /\ call.in.owner.t = "string" /\ isSafePathSegment(call.in.owner.s)
    /\ call.in.name.t = "string" /\ isSafePathSegment(call.in.name.s)
    /\ \/ call.in.repo.t = "null"
       \/ call.in.repo.t = "string" /\ isSafePathSegment(call.in.repo.s)
    /\ \A k \in 1..Len(call.out.skillDir) : call.out.skillDir[k] \notin {"..", "."}
    /\ Len(call.out.skillDir) =
         Len(SKILLS_DIR) + (IF call.in.repo.t = "null" THEN 2 ELSE 3)
    /\ StartsWithDir(call.out.skillDir, SKILLS_DIR)

\* A response with safe owner and name and the repo ".." has been refused.
C22_UnsafeRepoRefused ==
  /\ call.fn = "validateSkillDetail"
  /\ call.in.slug = Str(<<"a", "/", "b">>) /\ call.in.versions = "array"
  /\ call.in.owner = Str(<<"a">>) /\ call.in.name = Str(<<"a", ".", "b">>)
  /\ call.in.repo = Str(<<".", ".">>)
  /\ ~call.out.accepted

\* C23: the source strings that denote one skill of the git host in different
\* conventions (the tree URL, with or without scheme, in mixed case, the SSH
\* remote, the bare owner/repo/skill reference) all resolve, and to the same id.
C23_SameIdInEveryConvention ==
  (call.fn = "parseSkillUrl_two" /\ call.in.skill.kind = "git") =>
    /\ call.out[1].ok /\ call.out[2].ok
    /\ call.out[1].id = call.out[2].id

\* The skill at skills/tree was resolved from its tree URL and from its bare
\* reference, and the bare reference gave the id of the repository.
C23_SkillNamedTreeLost ==
  /\ call.fn = "parseSkillUrl_two"
  /\ call.in.skill.path = <<"tree">> /\ call.in.forms = <<"tree", "bare">>
  /\ call.out[1].id = <<"github.com", "/", "acme", "/", "tools", "/", "tree">>
  /\ call.out[2].id = <<"github.com", "/", "acme", "/", "tools">>

\* The safe-segment predicate on a field given as tokens: the field is not
\* empty, every token is a word, a host name or a dot, and no two dots follow
\* each other.
SafeField(field) ==
  /\ field # <<>>
  /\ \A k \in 1..Len(field) : field[k] \in (WordToks \cup HostToks \cup {"."})
  /\ field \notin {<<".">>}
  /\ ~IncludesDotDot(field)

\* The fields of an identity that are present.
PresentFields(identity) ==
  {identity.owner} \cup ({identity.repo, identity.skill} \ {<<>>})

\* C24: every identity the resolver returns has lowercase owner, repo and skill
\* that pass the safe-segment predicate: a source that would produce another
\* field is refused.
C24_ReturnedFieldsAreSafe ==
  (call.fn = "parseSkillUrl" /\ call.out.ok) =>
    \A field \in PresentFields(call.out) :
      toLowerCase(field) = field /\ SafeField(field)

\* The legacy registry URL with the slug "../x" was resolved to an identity whose
\* skill is "../x".
C24_TraversalSlugReturned ==
  /\ call.fn = "parseSkillUrl"
  /\ call.out.ok
  /\ call.out.skill = <<".", ".", "/", "x">>

\* C25: for the registry host, the legacy URL with the slug as a query parameter
\* resolves to the same identity as the publisher/slug URL of the same skill.
C25_LegacyFormSameIdentity ==
  (call.fn = "parseSkillUrl_two" /\ call.in.skill.kind = "registry") =>
    /\ call.out[1].ok /\ call.out[2].ok
    /\ call.out[1].id = call.out[2].id
    /\ call.out[1].owner = call.out[2].owner
    /\ call.out[1].repo = call.out[2].repo
    /\ call.out[1].skill = call.out[2].skill

\* The skill desk of the publisher pub was resolved from both forms, and the
\* legacy form put it under the publisher clawhub.
C25_LegacyUnderOtherPublisher ==
  /\ call.fn = "parseSkillUrl_two"
  /\ call.in.skill.repo = "pub" /\ call.in.forms = <<"site", "legacy">>
  /\ call.out[1].id = <<"clawhub.ai", "/", "pub", "/", "desk">>
  /\ call.out[2].id = <<"clawhub.ai", "/", "clawhub", "/", "desk">>

\* C31 as stated: downloadArtifact returns bytes only when they were fetched from
\* an https URL; for a download URL of any other scheme it raises and returns no
\* content.
C31_ContentOnlyOverHttps ==
  call.fn = "downloadArtifact" /\ call.out = "content" =>
    assertHttpsUrl(call.in.url) = "ok"

\* downloadArtifact has returned the content fetched from an http URL.
C31_ContentOverHttp ==
  /\ call.fn = "downloadArtifact"
  /\ call.out = "content"
  /\ protocol(call.in.url) = "http:"
  /\ assertHttpsUrl(call.in.url) = "URL must use https: scheme"

-----------------------------------------------------------------------------
\* Properties of the registry requests.

\* C27: when a request of add or update (the detail fetch of update, resolve, a
\* job poll, the detail fetch, the artifact download) was answered with 426, the
\* command ends in the wrapper reporting that an upgrade is required, with the
\* minimum version the answer gave.
C27_UpgradeRequiredReported ==
  (cmd.upgradeAt # "none" /\ cmd.pc = "done") =>
    /\ cmd.outcome = "upgrade required"
    /\ cmd.message \in {"0.2.1", "unknown"}

\* The artifact download was answered with 426 and add exited with the generic
\* failure.
C27_DownloadUpgradeSwallowed ==
  cmd.upgradeAt = "download" /\ cmd.pc = "done" /\ cmd.outcome = "exit 1"

WaitPcs == {"waitForJob", "getJobStatus", "sleep"}

-----------------------------------------------------------------------------
\* Properties of the within-base check.

\* The path the last call resolved its candidate to, as segments and as a string.
CandSegments ==
  resolveSegments(IF within.fn = "isPathSafe" THEN <<sep>> ELSE BaseDir, within.cand)
CandStr == IF CandSegments = <<>> THEN <<sep>> ELSE JoinSegments(CandSegments)

\* The resolved candidate is the base directory or lies below it: the segments
\* of the base are the first segments of the candidate.
InsideBase ==
  LET b == resolveSegments(<<sep>>, BaseDir) IN
    Len(CandSegments) >= Len(b) /\ SubSeq(CandSegments, 1, Len(b)) = b

\* C20: the within-base check accepts a candidate exactly when its resolved
\* absolute form is the base or starts with the base followed by the separator,
\* which is when it is the base directory or lies below it; a sibling whose name
\* begins with the name of the base, and a path that climbs out of the base with
\* "..", are rejected.
C20_AcceptsExactlyInside ==
  within.verdict # "none" =>
    /\ within.verdict = "ok" <=>
         (CandStr = BaseDir \/ startsWith(CandStr, BaseDir \o <<sep>>))
    /\ within.verdict = "ok" <=> InsideBase
    /\ (CandStr # BaseDir /\ startsWith(CandStr, BaseDir) /\ ~InsideBase)
         => within.verdict = "threw"

\* assertPathWithinBase has rejected a relative path that climbs out of the base
\* into a sibling whose name begins with the name of the base.
C20_SiblingRejected ==
  /\ within.fn = "assertPathWithinBase"
  /\ within.cand = <<".", ".", sep, "b", "-">>
  /\ CandStr = <<sep, "b", "-">>
  /\ within.verdict = "threw"

-----------------------------------------------------------------------------
\* Properties of the migration of the legacy list.

\* The load that has returned began with index.json absent and a list in config.json.
MigratingLoadReturned ==
  /\ mig.pc = "returned"
  /\ mig.start.index.status = "absent"
  /\ mig.start.config.exists /\ mig.start.config.hasList

\* C16: when index.json is absent and config.json holds a legacy installedSkills
\* list, the first loadConfig or loadIndex moves the list: when it has returned,
\* index.json holds exactly the legacy records and config.json has no
\* installedSkills field; loadIndex returns the legacy records.
C16_LegacyListMigrated ==
  MigratingLoadReturned =>
    /\ indexFile = SavedIndex(mig.start.config.list)
    /\ configFile.exists /\ ~configFile.hasList
    /\ mig.fn = "loadIndex" => mig.result = mig.start.config.list

\* A loadIndex has migrated a legacy list of two records.
C16_TwoRecordsMigrated ==
  /\ MigratingLoadReturned
  /\ mig.fn = "loadIndex"
  /\ Cardinality(mig.start.config.list) = 2
  /\ Cardinality(indexFile.doc) = 2

\* C35 as stated: at every instant of the migration of a legacy list, begun with
\* index.json absent, and also after the process was killed inside it, the list
\* is in config.json or in index.json.
C35_LegacyListNeverLost ==
  (/\ mig.fn # "none"
   /\ mig.start.index.status = "absent"
   /\ mig.start.config.exists /\ mig.start.config.hasList) =>
    \/ configFile.exists /\ configFile.hasList /\ configFile.list = mig.start.config.list
    \/ readJsonFile(indexFile).ok /\ indexFile.doc = mig.start.config.list

\* A loadIndex was killed between its two saves: config.json has been saved
\* without the list of two records and index.json is still absent.
C35_KilledBetweenTheSaves ==
  /\ mig.pc = "idle" /\ mig.fn = "loadIndex" /\ crashes = 1
  /\ Cardinality(mig.start.config.list) = 2
  /\ configFile = CurrentConfig
  /\ indexFile.status = "absent"

-----------------------------------------------------------------------------
\* Properties of the installer.

\* The only agent of a finished installToAgents call made for one agent.
SoloDone(a) ==
  batch.state = "joined" /\ batch.agents = {a}

SecondCall(a) ==
  installToAgent(Disk, batch.skill.canonical, batch.skill.name, a, batch.global)

\* C7 as stated: for any skill, agent and scope, installToAgent called twice in
\* succession with the same inputs returns success both times and the disk after
\* the second call is the disk after the first.
C7_AlwaysSuccessTwice ==
  \A a \in AgentTypes : SoloDone(a) =>
    /\ calls[a].success
    /\ SecondCall(a).c.success
    /\ SecondCall(a).d = Disk

\* C7, amended: whenever installToAgent returns success, calling it again with
\* the same inputs returns success in the same mode and leaves the disk as the
\* first call left it.
C7_IdempotentOnSuccess ==
  \A a \in AgentTypes : (SoloDone(a) /\ calls[a].success) =>
    /\ SecondCall(a).c.success
    /\ SecondCall(a).c.mode = calls[a].mode
    /\ SecondCall(a).d = Disk

\* A first call has succeeded by copying, so that the second call removes the
\* copy and copies again.
C7_CopiedOnce ==
  \E a \in AgentTypes :
    /\ SoloDone(a) /\ calls[a].success /\ calls[a].mode = "copy"
    /\ entries[calls[a].path] = DirEntry(AllFiles)

\* C38 as stated: whenever installToAgent has returned success, checkSymlinkStatus
\* of the returned path and the same canonical path, applied at once, is ok or copy.
C38_SuccessThenOkOrCopy ==
  \A a \in AgentTypes : (SoloDone(a) /\ calls[a].success) =>
    checkSymlinkStatus(Disk, calls[a].path, batch.skill.canonical) \in {"ok", "copy"}

\* installToAgent has returned success in symlink mode for a skill whose canonical
\* directory is missing, and the status of what it returned is broken.
C38_SuccessOnBrokenLink ==
  \E a \in AgentTypes :
    /\ SoloDone(a) /\ calls[a].success /\ calls[a].mode = "symlink"
    /\ ~canon[batch.skill.canonical]
    /\ checkSymlinkStatus(Disk, calls[a].path, batch.skill.canonical) = "broken"

\* What is at the path is the skill: a link that resolves to the canonical
\* directory, or a directory holding all of its files.
Installed(path, canonical) ==
  LET e == entries[path] IN
    \/ e.kind = "link" /\ resolve(dirname(path), e.target) = canonical
    \/ e.kind = "dir" /\ e.files = AllFiles

\* C15 as stated: when the process is killed at any step of installToAgent, the
\* agent skill path is as it was before the call, or absent, or the complete new
\* link or the complete copy; a partially populated entry is never left. Stated
\* for the add commands that install to one agent.
C15_NoPartialEntryAfterKill ==
  (add.pc = "exited" /\ add.outcome = "killed" /\ Cardinality(add.in.agents) = 1) =>
    \A l \in LinkPaths :
      \/ entries[l] = snap.entries[l]
      \/ entries[l] = NoEntry
      \/ Installed(l, skillDir)

\* An add installing to one agent has been killed inside the recursive copy,
\* which has left a directory holding only the first file.
C15_KilledInsideCopy ==
  /\ add.pc = "exited" /\ add.outcome = "killed"
  /\ add.in.agents = {"claude-code"}
  /\ \E l \in LinkPaths : /\ snap.entries[l] = NoEntry
                           /\ entries[l] = DirEntry({CanonFiles[1]})

\* C8: when the concurrent installToAgent calls of an installToAgents have all
\* returned, each has reported success and each agent's skill path is a link to
\* the canonical directory or a complete copy of it. Stated here for the calls
\* whose agents all support the scope and whose canonical directory exists.
C8_AllSucceedComplete ==
  (/\ batch.state = "joined"
   /\ canon[batch.skill.canonical]
   /\ \A a \in batch.agents : getAgentSkillPath(batch.skill.name, a, batch.global) # <<>>)
  => \A a \in batch.agents :
       /\ calls[a].success
       /\ Installed(calls[a].path, batch.skill.canonical)

\* Two agents with one skills directory have been installed to concurrently.
C8_SharedDirectoryJoined ==
  /\ batch.state = "joined"
  /\ \E a, b \in batch.agents : a # b /\ calls[a].path = calls[b].path

\* The status the description gives for what is on disk at a path.
DescribedStatus(path, expected) ==
  LET e == entries[path]
      dest == resolve(dirname(path), e.target)
  IN CASE e.kind = "none" -> "missing"
       [] e.kind = "dir" -> "copy"
       [] e.kind = "link" /\ dest # expected -> "wrong_target"
       [] e.kind = "link" /\ dest = expected /\ ~canon[expected] -> "broken"
       [] e.kind = "link" /\ dest = expected /\ canon[expected] -> "ok"

\* C10: checkSymlinkStatus returns missing when nothing is at the path, copy when
\* a real directory is there, wrong_target when a link resolves to another path
\* than the expected one, broken when it resolves to the expected path and that
\* does not exist, ok when it resolves to the expected path and that exists.
\* Stated of the scan before the repair loop of sync --fix changes the disk.
C10_StatusAsDescribed ==
  fix.pc = "idle" => \A t \in DOMAIN scan :
    scan[t] = DescribedStatus(getAgentSkillPath(t.skill.name, t.agent, t.global),
                              t.skill.canonical)

\* A scan that found an installed link in order and another one broken.
C10_ScanOkAndBroken ==
  /\ scan # NoScan
  /\ \E t, u \in DOMAIN scan : scan[t] = "ok" /\ scan[u] = "broken"

\* The call of agent a has returned after createSymlink reported failure, and no
\* other installToAgent call of the same installToAgents worked on its path.
FellBackAlone(a) ==
  /\ calls[a].pc = "done" /\ calls[a].fallback
  /\ \A b \in AgentTypes \ {a} : calls[b].pc # "none" => calls[b].path # calls[a].path

C11_MissingCanonicalRefused ==
  /\ \A t \in fix.relinked : canon[t.skill.canonical]
  /\ \A t \in fix.refused : ~canon[t.skill.canonical]
  /\ fix.failed >= Cardinality(fix.refused)
  /\ fix.pc = "done" =>
       /\ fix.refused = {t \in Issues : ~canon[t.skill.canonical]}
       /\ fix.fixed + fix.failed = Cardinality(Issues)

\* A repair loop has ended after refusing one issue and repairing another.
C11_RefusedOneFixedOther ==
  /\ fix.pc = "done"
  /\ fix.refused # {} /\ fix.fixed > 0
  /\ \E t \in fix.refused : entries[getAgentSkillPath(t.skill.name, t.agent, t.global)].kind = "link"

\* C12 as stated: for every recorded skill and every agent of its agent list the
\* scan of sync computes a status, and an issue is reported for every status
\* other than ok and copy; no recorded pair of skill and agent is left unchecked.
C12_EveryRecordedPairChecked ==
  scan # NoScan =>
    /\ DOMAIN scan = RecordedPairs
    /\ fix.pc # "idle" => \A t \in RecordedPairs :
                            scan[t] \notin {"ok", "copy"} => t \in fix.issues \cup fix.refused
                                                               \cup fix.relinked

\* A scan has passed over a recorded pair: replit recorded for a global skill.
C12_PairSkipped ==
  /\ scan # NoScan
  /\ \E t \in RecordedPairs : t.agent = "replit" /\ t.global /\ t \notin DOMAIN scan

\* C36 as stated: sync never creates an agent-side link or copy for a skill whose
\* canonical path does not exist, in its repair loop and in its add-new loop: a
\* step of a running sync that puts a link or a directory at an agent skill path
\* is taken with the canonical directory of the skill in place.
C36_SyncLinksExistingSkillsOnly ==
  [][\A l \in LinkPaths :
       (/\ syncNew.pc \in {"repairing", "adding"}
        /\ entries'[l] # entries[l]
        /\ entries'[l].kind \in {"link", "dir"})
         => canon[syncNew.record.skill.canonical]]_vars

\* A sync with add-new has ended after linking a new agent to the skill, whose
\* canonical directory the user had deleted before; nothing else had touched the
\* agent directories.
C36_NewAgentLinkedToNothing ==
  /\ syncNew.pc = "done"
  /\ batches = 0 /\ envSteps = 1
  /\ ~canon[syncNew.record.skill.canonical]
  /\ \E a \in syncNew.succeeded :
       entries[getAgentSkillPath(syncNew.record.skill.name, a, TRUE)].kind = "link"

\* The canonical directory of the skill whose link is at an agent skill path.
LinkedSkill(l) == resolve(dirname(l), entries[l].target)

\* The skills that an installToAgent call under way or the running remove is for.
ActingSkills ==
  {calls[a].canonical : a \in {x \in AgentTypes : calls[x].pc \notin {"none", "done"}}}
    \cup (IF removal.pc = "agents" THEN {removal.record.skill.canonical} ELSE {})

\* C34 as stated: installing or removing one skill never replaces or deletes the
\* agent-side entry of a different installed skill: a step that changes the link
\* of a skill recorded in the index is a step of an operation on that skill.
C34_OtherSkillsEntryKept ==
  [][\A l \in LinkPaths :
       (/\ entries'[l] # entries[l]
        /\ entries[l].kind = "link"
        /\ \E r \in removal.index : r.skill.canonical = LinkedSkill(l))
         => LinkedSkill(l) \in ActingSkills]_vars

\* Two skills of different owners are recorded for claude-code, and the add of the
\* second has put its link where the link of the first was.
C34_SecondSkillTookThePath ==
  /\ batch.state = "joined" /\ batch.skill = Skill3
  /\ \E r1 \in removal.index, r3 \in removal.index :
       /\ r1.skill = Skill1 /\ r3.skill = Skill3
       /\ "claude-code" \in r1.agents \cap r3.agents
       /\ getAgentSkillPath(Skill1.name, "claude-code", TRUE)
            = getAgentSkillPath(Skill3.name, "claude-code", TRUE)
  /\ LinkedSkill(getAgentSkillPath(Skill1.name, "claude-code", TRUE)) = Skill3.canonical

\* C40 as stated: when remove has deleted the index record of a skill, the
\* canonical directory of the skill and the agent-side entry of every agent listed
\* in the record have been removed from the disk.
C40_RemovedBeforeRecordDeleted ==
  removal.pc = "done" =>
    /\ removal.record \notin removal.index
    /\ ~canon[removal.record.skill.canonical]
    /\ \A a \in removal.record.agents :
         LET agentSkillDir == getAgentSkillPath(removal.record.skill.name, a,
                                                removal.record.global)
         IN agentSkillDir # <<>> => entries[agentSkillDir].kind = "none"

\* remove has deleted the record of a skill whose link for an agent of the record
\* it could not remove.
C40_RecordDeletedEntryLeft ==
  /\ removal.pc = "done"
  /\ removal.record \notin removal.index
  /\ \E a \in removal.failed :
       /\ a \in removal.record.agents
       /\ entries[getAgentSkillPath(removal.record.skill.name, a,
                                    removal.record.global)].kind = "link"

\* C37 as stated: when sync with fix has ended with every repair successful, a
\* sync that follows at once over the same index and the same filesystem finds
\* no issue: each recorded installation has the status ok or copy.
C37_NoIssueAfterFix ==
  (fix.pc = "done" /\ fix.failed = 0) =>
    \A t \in DOMAIN scan :
      checkSymlinkStatus(Disk, getAgentSkillPath(t.skill.name, t.agent, t.global),
                         t.skill.canonical) \in {"ok", "copy"}

\* Every repair has succeeded, and the link that was made for one skill has left
\* the other skill of the same name with a link to the wrong target.
C37_RepairBrokeTheOther ==
  /\ fix.pc = "done" /\ fix.failed = 0 /\ fix.fixed >= 1
  /\ \E t \in DOMAIN scan, u \in DOMAIN scan :
       /\ t.skill # u.skill
       /\ getAgentSkillPath(t.skill.name, t.agent, t.global)
            = getAgentSkillPath(u.skill.name, u.agent, u.global)
       /\ u \in fix.relinked
       /\ checkSymlinkStatus(Disk, getAgentSkillPath(t.skill.name, t.agent, t.global),
                             t.skill.canonical) = "wrong_target"

\* C30: when sync runs with fix and add-new, installToAgent is called for every
\* detected agent that the agent list of the skill lacks, and when the sync has
\* ended every such agent whose install succeeded is in the agent list of the
\* skill's record in the saved index.
C30_NewAgentsInstalledAndRecorded ==
  /\ syncNew.called \subseteq syncNew.detected \ syncNew.record.agents
  /\ syncNew.succeeded \subseteq syncNew.called
  /\ syncNew.cur # "" => /\ calls[syncNew.cur].pc # "none"
                         /\ calls[syncNew.cur].agent = syncNew.cur
                         /\ calls[syncNew.cur].name = syncNew.record.skill.name
  /\ syncNew.pc \in {"done", "threw"} =>
       syncNew.called = syncNew.detected \ syncNew.record.agents
  /\ syncNew.pc = "done" =>
       /\ syncNew.succeeded \subseteq syncNew.saved
       /\ syncNew.saved = syncNew.record.agents \cup syncNew.succeeded

\* A sync has ended after installing the skill to one new agent, now in the saved
\* record, and failing for another, which is not.
C30_NewAgentRecorded ==
  /\ syncNew.pc = "done"
  /\ \E a \in syncNew.succeeded :
       /\ a \notin syncNew.record.agents /\ a \in syncNew.saved
       /\ entries[getAgentSkillPath(syncNew.record.skill.name, a, TRUE)].kind # "none"
  /\ \E a \in syncNew.called : a \notin syncNew.succeeded /\ a \notin syncNew.saved

-----------------------------------------------------------------------------
\* Properties of the local state store.

\* C3: every index mutation (addInstalledSkill, removeInstalledSkill, the save of
\* sync --add-new) holds the lock from its load to its save, so that no other
\* process renames index.json between the two. Stated at the mutation's rename:
\* no other process has saved since this one loaded.
C3_NoForeignSaveInCycle ==
  \A p \in Procs :
    (ppc[p] = "rename" /\ pop[p].kind # "get") => ~foreignSave[p]

\* C4: two processes are never both inside the function guarded by withFileLock
\* for index.json.lock, also after a stale lock was taken over.
C4_MutualExclusion ==
  \A p, q \in Procs : p # q => ~(InGuardedFn(p) /\ InGuardedFn(q))

\* C5: whatever a reader finds at index.json, at any instant, also while another
\* process is saving or has crashed in the middle of a save, is a complete
\* document (or no file at all), never a partially written one.
C5_ReadNeverPartial ==
  /\ indexFile.status \in {"absent", "complete"}
  /\ \A p \in Procs : ppc[p] = "load" =>
       (readJsonFile(indexFile).ok \/ indexFile.status = "absent")

\* A reader is about to read index.json, which exists, while another process has
\* written only part of its temp file (it is in the middle of a save, or crashed there).
C5_ReaderDuringSave ==
  \E p, q \in Procs :
    /\ p # q
    /\ ppc[p] = "load"
    /\ tmpFile[q] = "partial"
    /\ indexFile.status = "complete"

\* The most loop iterations one withFileLock call can make: one per tick until
\* the timeout, the iteration that raises it, and one stale takeover.
RetryBound == TimeoutTicks + 2

\* C6: a call of withFileLock makes a bounded number of retries: it acquires the
\* lock or raises the timeout, whatever the other processes do with the lock file.
C6_BoundedRetries ==
  \A p \in Procs :
    /\ lockTries[p] <= RetryBound
    /\ (ppc[p] = "check" /\ IsTimedOut(p)) => ENABLED withFileLock_check(p)

\* A call gave up with the timeout error after waiting on a lock it never got.
C6_TimedOut == \E p \in Procs : ppc[p] = "timedOut" /\ lockTries[p] > 1

\* C17: a save that finds a lock file older than the staleness threshold, left by
\* a process that is gone, removes it and goes on to take the lock: no call of
\* withFileLock reaches its timeout test, or gives up with the timeout error,
\* in front of a lock file that is stale.
C17_StaleLockNotWaitedFor ==
  \A p \in Procs :
    ppc[p] \in {"check", "timedOut"} => ~(lockFile.present /\ IsStale(lockFile))

\* A save has removed the stale lock of a killed process and, without sleeping,
\* has taken the lock at its second attempt and written its temp file.
C17_SavedAfterStaleLock ==
  \E p \in Procs :
    /\ ppc[p] = "rename"
    /\ lockFile.present /\ lockFile.owner = p
    /\ lockTries[p] = 2 /\ elapsed[p] = 0
    /\ crashes = 1

====
